---- MODULE Spec2Model ----
(***************************************************************************)
(* Model of the Flowstate Phase-2 factory scheduler                        *)
(* (src/code/model_builder.py, phase2_scheduler.py, validate_schedule.py,  *)
(* data_loader.py).                                                        *)
(*                                                                         *)
(* The CP-SAT model built by build_model is a conjunction of constraints   *)
(* over integer and boolean decision variables; a "feasible solution" is   *)
(* any assignment that satisfies all of them.  The operators below state   *)
(* the constraints block by block, in the order of the source, and         *)
(* Solutions(P, data, args) is the set of satisfying                       *)
(* assignments.  The solver call (solver.Solve) is the action that picks   *)
(* one of them, or reports a non-feasible status.                          *)
(*                                                                         *)
(* Hours are scaled: one planning week is WeekHours hours (168 in the      *)
(* program), the horizon is two weeks.  Order indices are 1-based (the     *)
(* program's o_idx + 1).                                                   *)
(***************************************************************************)
EXTENDS Integers, Sequences, FiniteSets, TLC

VARIABLES
    P,              \* Params of the run (data_loader.Params)
    data,           \* Data of the model being solved (data_loader.Data)
    args,           \* command-line switches: phase, relax_demand, ignore_co, ...
    pc,             \* position of main() / _run_two_phase()
    status,         \* status name of the last solver call
    sol,            \* values read from the solver after the last solve
    schedule_rows,  \* rows built by _solution_to_rows (last solve)
    bounds_rows,    \* produced-vs-bounds rows (last solve)
    cip_rows,       \* rows built by extract_cip_windows / compute_cip_windows
    files,          \* the output files of the data directory
    kpi,            \* content of solver_kpis.txt
    w0,             \* two-phase: what Week-0 left for Week-1 (rows, input)
    exc,            \* the last exception raised in main(), or NoExc
    err_log,        \* entries of solver_error.txt written by log()
    progress,       \* solver_progress.json, its temp file and its writer
    stages          \* the "stages" list of solver_progress.json

\* What the solve steps of main() leave alone.
aux == <<exc, err_log, progress, stages>>

vars == <<P, data, args, pc, status, sol, schedule_rows, bounds_rows,
          cip_rows, files, kpi, w0, exc, err_log, progress, stages>>

----------------------------------------------------------------------------
(* Bounds and program constants *)

\* Hours of one planning week (168 in the program).
WeekHours == 3

\* model_builder.py:13-16, in scaled hours.
WEEK0_END == WeekHours - 1
WEEK1_START == WeekHours
WEEK0_FILL_START == WeekHours - 1
MAX_GAP_W0_W1_HOURS == 1

\* Params.min_run_pct_of_qty = 0.5, as a fraction.
MinRunPctNum == 1
MinRunPctDen == 2

\* "no value" (Python None) of an integer-valued field.
None == 0 - 1

----------------------------------------------------------------------------
(* Arithmetic helpers *)

Max2(a, b) == IF a >= b THEN a ELSE b
Min2(a, b) == IF a <= b THEN a ELSE b

SetMax(S) == CHOOSE x \in S : \A y \in S : y <= x
SetMin(S) == CHOOSE x \in S : \A y \in S : x <= y

\* math.ceil(a / b) for a >= 0, b > 0
CeilDiv(a, b) == (a + b - 1) \div b

RECURSIVE SumOver(_, _)
\* sum of f[x] over x in S
SumOver(S, f) ==
    IF S = {} THEN 0
    ELSE LET x == CHOOSE y \in S : TRUE
         IN  f[x] + SumOver(S \ {x}, f)

\* A mis-rounding of the rate: floor(r + 0.5), data_loader.round_half_up.
RoundRateHalfUp(r2) == (r2 + 1) \div 2

\* int(round(r)) for the rate r = r2 / 2: Python 3 rounds halves to even.
RoundRate(r2) ==
    LET q == r2 \div 2
    IN  IF r2 % 2 = 0 THEN q
        ELSE IF q % 2 = 0 THEN q ELSE q + 1

----------------------------------------------------------------------------
(* Data access *)

NOrders(d) == 1..Len(d.orders)

\* data.rate.get((l, sku)) as twice the rate; a missing rate reads 0, which
\* takes the same branches as None (r is None or r <= 0).
Rate2(d, l, sku) ==
    IF <<l, sku>> \in DOMAIN d.rate2 THEN d.rate2[<<l, sku>>] ELSE 0

\* data.capable.get((l, sku)); missing reads 0 (cap is None or cap == 0).
Capable(d, l, sku) ==
    IF <<l, sku>> \in DOMAIN d.capable THEN d.capable[<<l, sku>>] ELSE 0

\* data.setup.get((a, b), 0)
Setup(d, a, b) ==
    IF <<a, b>> \in DOMAIN d.setup THEN d.setup[<<a, b>>] ELSE 0

\* data.init_map.get(l, {}).get(field, default)
InitOf(d, l) ==
    IF l \in DOMAIN d.init_map THEN d.init_map[l]
    ELSE [initial_sku |-> "CLEAN", available_from |-> 0,
          long_shutdown_flag |-> 0, long_shutdown_extra |-> 4,
          carryover_run_hours |-> 0, last_cip_end_hour |-> None]

\* available_hours_line
AvailableHoursLine(Pp, d, l) ==
    LET H == Pp.horizon_h
        avail_block == Min2(Max2(0, InitOf(d, l).available_from), H)
        dts == {dt \in d.downtimes :
                    dt.line_id = l /\ Min2(H, dt.end) > Max2(0, dt.start)}
        len == [dt \in dts |-> Min2(H, dt.end) - Max2(0, dt.start)]
    IN  Max2(0, H - (avail_block + SumOver(dts, len)))

----------------------------------------------------------------------------
(* build_model: decision variables per (line, order)                       *)
(*                                                                         *)
(* A value of the solver variables of one (line, order) key is a record    *)
(*   present, sa_s, sa_r, sa_e   (seg_a_start, seg_a_run, seg_a_end)       *)
(*   sb_p, sb_s, sb_r, sb_e      (seg_b_present, seg_b_start, ...)         *)
(* run_h and eff_end are fixed by equality constraints and are operators.  *)
(* Variables that no enforced constraint reads are kept at one value:      *)
(* the start of an absent seg_a is only bounded from below (H satisfies    *)
(* every such bound that can be satisfied), and the start, end and run of  *)
(* an absent seg_b are free (0).                                           *)

\* model.Add(seg_a_run + seg_b_run == run_h)
RunH(v) == v.sa_r + v.sb_r

\* eff_end == seg_b_end if seg_b_present else seg_a_end
EffEnd(v) == IF v.sb_p THEN v.sb_e ELSE v.sa_e

AbsentSeg(H) ==
    [present |-> FALSE, sa_s |-> H, sa_r |-> 0, sa_e |-> 0,
     sb_p |-> FALSE, sb_s |-> 0, sb_r |-> 0, sb_e |-> 0]

\* NewIntVar(0, H) for starts and ends; NewOptionalIntervalVar ties
\* start + run == end of a present segment.
SegDomain(H) ==
    {AbsentSeg(H)}
    \cup {[present |-> TRUE, sa_s |-> s, sa_r |-> r, sa_e |-> s + r,
           sb_p |-> FALSE, sb_s |-> 0, sb_r |-> 0, sb_e |-> 0] :
            s \in 0..H, r \in 0..H}
    \cup {[present |-> TRUE, sa_s |-> s, sa_r |-> r, sa_e |-> s + r,
           sb_p |-> TRUE, sb_s |-> t, sb_r |-> q, sb_e |-> t + q] :
            s \in 0..H, r \in 0..H, t \in 0..H, q \in 0..H}

DsEff(Pp, o) ==
    IF o.due_start > WEEK0_END /\ Pp.allow_week1_in_week0
    THEN WEEK0_FILL_START ELSE o.due_start

MaxLen(Pp, o) ==
    Max2(0, Min2(Pp.horizon_h, o.due_end + 1) - Max2(0, DsEff(Pp, o)))

\* min(max_len, max(1, P.min_run_hours, ceil(pct * qmin / r)))
MinRun(Pp, o, r2) ==
    LET from_pct == CeilDiv(MinRunPctNum * o.qty_min * 2, MinRunPctDen * r2)
    IN  Min2(MaxLen(Pp, o), Max2(1, Max2(Pp.min_run_hours, from_pct)))

\* Is order o one of line l's eligible orders (elig / elig_idxs)?
Eligible(d, l, o) ==
    \/ o.is_trial /\ o.trial_line = l
    \/ ~o.is_trial /\ Capable(d, l, o.sku) # 0 /\ Rate2(d, l, o.sku) > 0

EligIdxs(d, l) == {oi \in NOrders(d) : Eligible(d, l, d.orders[oi])}

\* Variable bounds, linking constraints and due window of one key.
LinkingOK(Pp, o, v) ==
    LET H == Pp.horizon_h
    IN  /\ v.sa_e <= H /\ v.sb_e <= H
        /\ RunH(v) <= Max2(H, MaxLen(Pp, o))
        /\ v.sb_p => v.present
        /\ v.sb_p => v.sb_s >= v.sa_e
        /\ ~v.sb_p => v.sb_r = 0
        /\ ~v.present => v.sa_e = 0
        /\ v.present => v.sa_s >= DsEff(Pp, o)
        /\ v.present => v.sa_e <= o.due_end + 1
        /\ v.sb_p => v.sb_e <= o.due_end + 1

\* Per-segment minimums (avoid short stubs).
SegMinRunOK(Pp, v) ==
    /\ v.present => v.sa_r >= Pp.min_run_hours
    /\ v.sb_p => v.sb_r >= Pp.min_run_hours

\* Trial orders: pinned line, fixed start and effective end.
TrialOK(Pp, l, o, v) ==
    IF l = o.trial_line
    THEN /\ v.present
         /\ v.sa_s = o.trial_start_hour
         /\ EffEnd(v) = o.trial_end_hour
         /\ o.trial_run_hours # None => RunH(v) = o.trial_run_hours
         /\ SegMinRunOK(Pp, v)
    ELSE ~v.present /\ RunH(v) = 0

\* Capability / run bounds of a demand order.
CapabilityOK(Pp, d, l, o, v) ==
    LET r2 == Rate2(d, l, o.sku)
    IN  IF Capable(d, l, o.sku) = 0 \/ r2 <= 0
        THEN ~v.present /\ RunH(v) = 0
        ELSE /\ v.present => RunH(v) >= MinRun(Pp, o, r2)
             /\ ~v.present => RunH(v) = 0
             /\ SegMinRunOK(Pp, v)

\* Disallow seg_b when CIPs are not modelled.
SegBAllowed(a, v) == a.phase # "full" => ~v.sb_p

\* All constraints that read the variables of one (line, order) key only.
AssignOK(Pp, d, a, l, oi, v) ==
    LET o == d.orders[oi]
    IN  /\ LinkingOK(Pp, o, v)
        /\ IF o.is_trial THEN TrialOK(Pp, l, o, v)
                         ELSE CapabilityOK(Pp, d, l, o, v)
        /\ SegBAllowed(a, v)

SegChoices(Pp, d, a, l, oi) ==
    {v \in SegDomain(Pp.horizon_h) : AssignOK(Pp, d, a, l, oi, v)}

----------------------------------------------------------------------------
(* build_model: constraints over the keys of one line *)

\* The downtime intervals NoOverlap sees on line l: clipped to [0, H],
\* dropped when empty.
LineDowntimes(Pp, d, l) ==
    {[s |-> Max2(0, dt.start), e |-> Min2(Pp.horizon_h, dt.end)] :
        dt \in {x \in d.downtimes :
                  x.line_id = l
                  /\ Min2(Pp.horizon_h, x.end) - Max2(0, x.start) > 0}}

\* The present production intervals of line l (seg_a and seg_b), tagged.
SegIntervals(d, segs) ==
    {[s |-> segs[oi].sa_s, e |-> segs[oi].sa_e, id |-> <<"a", oi>>] :
        oi \in {x \in NOrders(d) : segs[x].present}}
    \cup {[s |-> segs[oi].sb_s, e |-> segs[oi].sb_e, id |-> <<"b", oi>>] :
        oi \in {x \in NOrders(d) : segs[x].sb_p}}

\* The present CIP intervals of a line.
CipIntervals(cips) ==
    {[s |-> cips[k].s, e |-> cips[k].e, id |-> <<"cip", k>>] :
        k \in {x \in DOMAIN cips : cips[x].b}}

DowntimeIntervals(Pp, d, l) ==
    {[s |-> dt.s, e |-> dt.e, id |-> <<"dt", dt.s, dt.e>>] :
        dt \in LineDowntimes(Pp, d, l)}

\* AddNoOverlap: the intervals can be put in a sequence with
\* end_i <= start_{i+1}.
Disjoint(S) ==
    \A x \in S : \A y \in S : x.id # y.id => (x.e <= y.s \/ y.e <= x.s)

\* A NoOverlap built before the CIP intervals are appended.
LineIntervalsNoCip(Pp, d, l, segs, cips) ==
    SegIntervals(d, segs) \cup DowntimeIntervals(Pp, d, l)

\* line_intervals[l] at the time AddNoOverlap is called.
LineIntervals(Pp, d, l, segs, cips) ==
    SegIntervals(d, segs) \cup DowntimeIntervals(Pp, d, l)
        \cup CipIntervals(cips)

NoOverlapOK(Pp, d, l, segs, cips) ==
    Disjoint(LineIntervals(Pp, d, l, segs, cips))

ChangeoversOn(a) == a.phase \in {"sanity3", "full"} /\ ~a.ignore_co

AnyPresent(S, segs) == \E oi \in S : segs[oi].present

NPresent(S, segs) == Cardinality({oi \in S : segs[oi].present})

\* eff: changeover from the line's initial SKU plus long-shutdown extra.
InitialSetup(d, l, o) ==
    LET im == InitOf(d, l)
        base == IF im.initial_sku # "CLEAN"
                THEN Setup(d, im.initial_sku, o.sku) ELSE 0
    IN  base + (IF im.long_shutdown_flag = 1 THEN im.long_shutdown_extra
                ELSE 0)

\* The start bound of the order flagged first on the line.
FirstStartOK(d, l, oi, segs) ==
    LET eff == InitialSetup(d, l, d.orders[oi])
        avail == InitOf(d, l).available_from
    IN  (eff > 0 \/ avail > 0) => segs[oi].sa_s >= avail + eff

\* first_i flags of line l.
FirstOK(d, l, segs, first) ==
    LET elig == EligIdxs(d, l)
    IN  /\ \A i \in elig :
              /\ first[i] => segs[i].present
              /\ first[i] =>
                    \A j \in elig \ {i} : segs[i].sa_s <= segs[j].sa_s
              /\ (first[i] /\ segs[i].present) => FirstStartOK(d, l, i, segs)
        /\ elig # {} =>
              Cardinality({i \in elig : first[i]})
                 = (IF AnyPresent(elig, segs) THEN 1 ELSE 0)

EligPairs(d, l) ==
    {pr \in EligIdxs(d, l) \X EligIdxs(d, l) : pr[1] < pr[2]}

EligOrdered(d, l) ==
    {pr \in EligIdxs(d, l) \X EligIdxs(d, l) : pr[1] # pr[2]}

\* A pairwise rule that charges no setup time.
PairOrderOKNoSetup(d, segs, i, j, bij) ==
    /\ bij => segs[i].present /\ segs[j].present
    /\ bij => segs[j].sa_s >= EffEnd(segs[i])
    /\ ~bij => segs[i].sa_s >= EffEnd(segs[j])

\* Pairwise ordering of eligible orders i < j with direction boolean b_ij.
PairOrderOK(d, segs, i, j, bij) ==
    /\ bij => segs[i].present /\ segs[j].present
    /\ bij => segs[j].sa_s >= EffEnd(segs[i])
                                + Setup(d, d.orders[i].sku, d.orders[j].sku)
    /\ ~bij => segs[i].sa_s >= EffEnd(segs[j])
                                + Setup(d, d.orders[j].sku, d.orders[i].sku)

PairwiseOK(d, l, segs, b) ==
    \A pr \in EligPairs(d, l) : PairOrderOK(d, segs, pr[1], pr[2], b[pr])

\* Chain constraints without the count of successor links.
SuccOKNoCount(d, l, segs, b, succ) ==
    LET elig == EligIdxs(d, l)
    IN  /\ \A pr \in EligPairs(d, l) :
              /\ succ[pr] => b[pr]
              /\ succ[<<pr[2], pr[1]>>] => ~b[pr]
        /\ \A pr \in EligOrdered(d, l) :
              succ[pr] => segs[pr[1]].present /\ segs[pr[2]].present
        /\ \A x \in elig :
              /\ Cardinality({y \in elig \ {x} : succ[<<x, y>>]}) <= 1
              /\ Cardinality({y \in elig \ {x} : succ[<<y, x>>]}) <= 1

\* Successor booleans and chain constraints.
SuccOK(d, l, segs, b, succ) ==
    LET elig == EligIdxs(d, l)
        n_succ == Cardinality({pr \in EligOrdered(d, l) : succ[pr]})
    IN  /\ \A pr \in EligPairs(d, l) :
              /\ succ[pr] => b[pr]
              /\ succ[<<pr[2], pr[1]>>] => ~b[pr]
        /\ \A pr \in EligOrdered(d, l) :
              succ[pr] => segs[pr[1]].present /\ segs[pr[2]].present
        /\ \A x \in elig :
              /\ Cardinality({y \in elig \ {x} : succ[<<x, y>>]}) <= 1
              /\ Cardinality({y \in elig \ {x} : succ[<<y, x>>]}) <= 1
        /\ EligOrdered(d, l) # {} =>
              n_succ = (IF AnyPresent(elig, segs)
                        THEN NPresent(elig, segs) - 1 ELSE 0)

\* Week-0 / Week-1 gap constraint of line l.
WeekGapOK(Pp, d, l, segs) ==
    LET w0s == {oi \in NOrders(d) : d.orders[oi].due_end <= WEEK0_END}
        w1s == {oi \in NOrders(d) : d.orders[oi].due_start >= WEEK1_START}
        last_w0_end ==
            SetMax({IF segs[oi].present THEN EffEnd(segs[oi]) ELSE 0 :
                       oi \in w0s})
        first_w1_start ==
            SetMin({IF segs[oi].present THEN segs[oi].sa_s
                    ELSE Pp.horizon_h : oi \in w1s})
    IN  (Pp.allow_week1_in_week0 /\ w0s # {} /\ w1s # {}) =>
          ((AnyPresent(w0s, segs) /\ AnyPresent(w1s, segs)) =>
              first_w1_start - last_w0_end <= MAX_GAP_W0_W1_HOURS)

----------------------------------------------------------------------------
(* build_model: CIPs as solver intervals (full phase) *)

AbsentCip == [b |-> FALSE, s |-> 0, e |-> 0]

\* NewOptionalIntervalVar(cks, dur, cke, bk): start, end in [0, H], and
\* start + dur == end when present.  An absent CIP's start and end are read
\* by no enforced constraint (0).
CipDomain(Pp) ==
    {AbsentCip}
    \cup {[b |-> TRUE, s |-> t, e |-> t + Pp.cip_duration_h] :
            t \in 0..(Pp.horizon_h - Pp.cip_duration_h)}

\* interval: the CIP interval the builder uses for line l.
CipIntervalOf(Pp, d, l) == Pp.cip_interval_h

FirstStartL(Pp, d, l, segs) ==
    SetMin({IF segs[oi].present THEN segs[oi].sa_s ELSE Pp.horizon_h :
               oi \in EligIdxs(d, l)})

LastEndL(d, l, segs) ==
    SetMax({IF segs[oi].present THEN EffEnd(segs[oi]) ELSE 0 :
               oi \in EligIdxs(d, l)})

\* clock_span: last effective end minus first start when any eligible order
\* is on the line, else 0.
ClockSpan(Pp, d, l, segs) ==
    IF AnyPresent(EligIdxs(d, l), segs)
    THEN LastEndL(d, l, segs) - FirstStartL(Pp, d, l, segs)
    ELSE 0

\* A trigger that counts production hours instead of clock hours.
CipNeededRunHours(Pp, d, l, segs, k) ==
    LET rh == [oi \in NOrders(d) |-> RunH(segs[oi])]
    IN  SumOver(NOrders(d), rh) + InitOf(d, l).carryover_run_hours
            >= k * CipIntervalOf(Pp, d, l)

\* b_k: clock_span + carry >= k * interval (both directions are enforced).
CipNeeded(Pp, d, l, segs, k) ==
    ClockSpan(Pp, d, l, segs) + InitOf(d, l).carryover_run_hours
        >= k * CipIntervalOf(Pp, d, l)

\* CIP 1: from avail_from up to avail_from + remaining, and up to the
\* absolute deadline when the previous CIP's hour is known.
Cip1WindowOK(Pp, d, l, c1) ==
    LET im == InitOf(d, l)
        interval == CipIntervalOf(Pp, d, l)
        remaining == Max2(0, interval - im.carryover_run_hours)
    IN  /\ c1.b => c1.s >= im.available_from
        /\ c1.b => c1.s <= im.available_from + remaining
        /\ (im.last_cip_end_hour # None /\ 0 <= im.last_cip_end_hour
              /\ im.last_cip_end_hour < Pp.horizon_h) =>
                (c1.b => c1.s <= im.last_cip_end_hour + interval)

\* A window for CIP 2 and 3 that is open to the right.
CipNextWindowOKNoUpper(Pp, d, l, prev, c) == c.b => c.s >= prev.e

\* CIP 2 and 3: from the previous CIP's end to that end + interval.
CipNextWindowOK(Pp, d, l, prev, c) ==
    /\ c.b => c.s >= prev.e
    /\ c.b => c.s <= prev.e + CipIntervalOf(Pp, d, l)

\* Aggregate: production + CIP time <= available hours.
CipCapacityOK(Pp, d, l, segs, cips) ==
    LET rh == [oi \in NOrders(d) |-> RunH(segs[oi])]
        total_run_l == SumOver(NOrders(d), rh)
        n_cip == Cardinality({k \in DOMAIN cips : cips[k].b})
    IN  /\ total_run_l <= Pp.horizon_h
        /\ total_run_l + Pp.cip_duration_h * n_cip
              <= AvailableHoursLine(Pp, d, l)

LastCipEnd(cips) ==
    SetMax({IF cips[k].b THEN cips[k].e ELSE 0 : k \in DOMAIN cips})

\* A model without the tail-coverage constraint.
CipTailOKAbsent(Pp, d, l, segs, cips) == TRUE

\* Production after the last CIP must be <= interval.
CipTailOK(Pp, d, l, segs, cips) ==
    cips[1].b =>
        LastEndL(d, l, segs) - LastCipEnd(cips) <= CipIntervalOf(Pp, d, l)

\* A link that accepts any present CIP of the line, wherever it lies.
CipLinkOKAnyCip(d, l, segs, cips) ==
    \A oi \in EligIdxs(d, l) :
        segs[oi].sb_p => \E k \in DOMAIN cips : cips[k].b

\* seg_b requires a present CIP between its segments.
CipLinkOK(d, l, segs, cips) ==
    \A oi \in EligIdxs(d, l) :
        segs[oi].sb_p =>
            \E k \in DOMAIN cips :
                /\ cips[k].b
                /\ segs[oi].sa_e <= cips[k].s
                /\ cips[k].e <= segs[oi].sb_s

\* All CIP constraints of a line with eligible orders.
CipOK(Pp, d, l, segs, cips) ==
    /\ \A k \in 1..3 : cips[k].b <=> CipNeeded(Pp, d, l, segs, k)
    /\ cips[2].b => cips[1].b
    /\ cips[3].b => cips[2].b
    /\ Cip1WindowOK(Pp, d, l, cips[1])
    /\ CipNextWindowOK(Pp, d, l, cips[1], cips[2])
    /\ CipNextWindowOK(Pp, d, l, cips[2], cips[3])
    /\ CipCapacityOK(Pp, d, l, segs, cips)
    /\ CipTailOK(Pp, d, l, segs, cips)
    /\ CipLinkOK(d, l, segs, cips)

\* cip_model_vars[l]: three CIPs for a line with eligible orders in full
\* phase, none otherwise.
CipChoices(Pp, d, a, l, segs) ==
    IF a.phase # "full" \/ EligIdxs(d, l) = {} THEN {<< >>}
    ELSE LET dom == CipDomain(Pp)
             C1 == {c \in dom : (c.b <=> CipNeeded(Pp, d, l, segs, 1))
                                  /\ Cip1WindowOK(Pp, d, l, c)}
             C2(c1) == {c \in dom : (c.b <=> CipNeeded(Pp, d, l, segs, 2))
                                  /\ CipNextWindowOK(Pp, d, l, c1, c)}
             C3(c2) == {c \in dom : (c.b <=> CipNeeded(Pp, d, l, segs, 3))
                                  /\ CipNextWindowOK(Pp, d, l, c2, c)}
             cand == UNION {UNION {{<<c1, c2, c3>> : c3 \in C3(c2)} :
                                      c2 \in C2(c1)} : c1 \in C1}
         IN  {cips \in cand : CipOK(Pp, d, l, segs, cips)}

----------------------------------------------------------------------------
(* build_model: constraints over all lines, and the set of solutions *)

RECURSIVE FuncProduct(_, _)
\* All functions f on S with f[x] \in C[x].
FuncProduct(S, C) ==
    IF S = {} THEN {<< >>}
    ELSE LET x == CHOOSE y \in S : TRUE
         IN  {g @@ (x :> v) : g \in FuncProduct(S \ {x}, C), v \in C[x]}

\* A limit that ignores the override.
MlpoNoOverride(Pp, a) == Pp.max_lines_per_order

\* mlpo: the override when one is passed, else P.max_lines_per_order.
Mlpo(Pp, a) ==
    IF a.max_lines_per_order = None THEN Pp.max_lines_per_order
    ELSE a.max_lines_per_order

\* produced[o]: sum over lines with a positive rate of int(round(r)) * run_h.
\* byLine[l] is the value of the key (l, o).
Produced(d, o, byLine) ==
    LET ls == {l \in d.lines : Rate2(d, l, o.sku) > 0}
        t == [l \in ls |-> RoundRate(Rate2(d, l, o.sku)) * RunH(byLine[l])]
    IN  SumOver(ls, t)

\* Demand bounds of order o.
ProducedOK(d, a, o, byLine) ==
    LET qmin == IF a.relax_demand THEN 0 ELSE o.qty_min
    IN  /\ Produced(d, o, byLine) >= qmin
        /\ Produced(d, o, byLine) <= o.qty_max

\* Non-trial orders: at most mlpo lines.
MlpoOK(Pp, d, a, o, byLine) ==
    ~o.is_trial =>
        Cardinality({l \in d.lines : byLine[l].present}) <= Mlpo(Pp, a)

\* The values of all keys of one order that satisfy the per-key and the
\* per-order constraints.
OrderChoices(Pp, d, a, oi) ==
    LET o == d.orders[oi]
        C == [l \in d.lines |-> SegChoices(Pp, d, a, l, oi)]
    IN  {f \in FuncProduct(d.lines, C) :
            ProducedOK(d, a, o, f) /\ MlpoOK(Pp, d, a, o, f)}

\* The changeover booleans of a line: first flags, order booleans b_ij and
\* successor booleans (none when changeovers are not modelled).
AuxChoices(d, a, l, segs) ==
    IF ~ChangeoversOn(a)
    THEN {[first |-> << >>, b |-> << >>, succ |-> << >>]}
    ELSE LET F == {f \in [EligIdxs(d, l) -> BOOLEAN] : FirstOK(d, l, segs, f)}
             B == {b \in [EligPairs(d, l) -> BOOLEAN] :
                      PairwiseOK(d, l, segs, b)}
             S(b) == {s \in [EligOrdered(d, l) -> BOOLEAN] :
                         SuccOK(d, l, segs, b, s)}
         IN  UNION {{[first |-> f, b |-> b, succ |-> s] : f \in F, s \in S(b)} :
                       b \in B}

\* The solutions of one line given the values of its keys.
LineChoices(Pp, d, a, l, segs) ==
    IF ~Disjoint(LineIntervalsNoCip(Pp, d, l, segs, << >>))
          \/ ~WeekGapOK(Pp, d, l, segs)
    THEN {}
    ELSE {[segs |-> segs, cips |-> c, first |-> x.first, b |-> x.b,
           succ |-> x.succ] :
             c \in {cc \in CipChoices(Pp, d, a, l, segs) :
                       NoOverlapOK(Pp, d, l, segs, cc)},
             x \in AuxChoices(d, a, l, segs)}

\* The feasible assignments of the model build_model returns: a function
\* from lines to the values of the line's variables.
Solutions(Pp, d, a) ==
    LET byOrder == FuncProduct(NOrders(d),
                       [oi \in NOrders(d) |-> OrderChoices(Pp, d, a, oi)])
        segsOf(g, l) == [oi \in NOrders(d) |-> g[oi][l]]
    IN  UNION {FuncProduct(d.lines,
                   [l \in d.lines |-> LineChoices(Pp, d, a, l, segsOf(g, l))]) :
                 g \in byOrder}

----------------------------------------------------------------------------
(* phase2_scheduler: from solver values to output rows *)

\* The elements of a set of integers in increasing order (sorted(...)).
RECURSIVE SortedSeq(_)
SortedSeq(S) ==
    IF S = {} THEN << >>
    ELSE LET m == SetMin(S) IN <<m>> \o SortedSeq(S \ {m})

RECURSIVE Flatten(_)
\* Concatenation of a sequence of sequences.
Flatten(ss) == IF ss = << >> THEN << >> ELSE Head(ss) \o Flatten(Tail(ss))

\* Rows that report the order's total run hours on each of its segments.
RowsOfKeyTotalRun(d, l, oi, v, hour_offset) ==
    LET o == d.orders[oi]
        row(s, e) ==
            [line_id |-> l, order_id |-> o.order_id, sku |-> o.sku,
             start_hour |-> s + hour_offset, end_hour |-> e + hour_offset,
             run_hours |-> RunH(v), is_trial |-> o.is_trial]
    IN  IF ~v.present THEN << >>
        ELSE (IF v.sa_r > 0 THEN <<row(v.sa_s, v.sa_e)>> ELSE << >>)
             \o (IF v.sb_p /\ v.sb_r > 0
                 THEN <<row(v.sb_s, v.sb_e)>> ELSE << >>)

\* The rows of one (line, order) key: seg_a, then seg_b when present.
RowsOfKey(d, l, oi, v, hour_offset) ==
    LET o == d.orders[oi]
        row(s, e, r) ==
            [line_id |-> l, order_id |-> o.order_id, sku |-> o.sku,
             start_hour |-> s + hour_offset, end_hour |-> e + hour_offset,
             run_hours |-> r, is_trial |-> o.is_trial]
    IN  IF ~v.present THEN << >>
        ELSE (IF v.sa_r > 0 THEN <<row(v.sa_s, v.sa_e, v.sa_r)>> ELSE << >>)
             \o (IF v.sb_p /\ v.sb_r > 0
                 THEN <<row(v.sb_s, v.sb_e, v.sb_r)>> ELSE << >>)

\* _solution_to_rows: schedule rows
ScheduleRows(d, s, hour_offset) ==
    LET ls == SortedSeq(d.lines)
        ofLine(l) ==
            Flatten([oi \in NOrders(d) |->
                        RowsOfKey(d, l, oi, s[l].segs[oi], hour_offset)])
    IN  Flatten([i \in 1..Len(ls) |-> ofLine(ls[i])])

\* _solution_to_rows: produced-vs-bounds rows, one per order of the model
BoundsRows(d, s) ==
    [oi \in NOrders(d) |->
        LET o == d.orders[oi]
            prod_val == Produced(d, o, [l \in d.lines |-> s[l].segs[oi]])
        IN  [order_id |-> o.order_id, sku |-> o.sku, qty_min |-> o.qty_min,
             qty_max |-> o.qty_max, produced |-> prod_val,
             in_bounds |-> (o.qty_min <= prod_val /\ prod_val <= o.qty_max)]]

\* extract_cip_windows: one row per present CIP, lines in increasing order.
ExtractCipWindows(d, s, hour_offset) ==
    LET ls == SortedSeq(d.lines)
        rowsOf(l) ==
            LET c == s[l].cips
                present_ks == {k \in DOMAIN c : c[k].b}
                ks == SortedSeq(present_ks)
            IN  [i \in 1..Len(ks) |->
                    [line_id |-> l, start_hour |-> c[ks[i]].s + hour_offset,
                     end_hour |-> c[ks[i]].e + hour_offset]]
    IN  Flatten([i \in 1..Len(ls) |-> rowsOf(ls[i])])

\* The rows of a sequence that belong to line l, in the sequence's order.
RowsOfLine(rows, l) == SelectSeq(rows, LAMBDA r : r.line_id = l)

RECURSIVE SortByStart(_)
\* sorted(rows, key=start_hour): stable insertion of the head into the
\* sorted tail.
SortByStart(rows) ==
    IF rows = << >> THEN << >>
    ELSE LET h == Head(rows)
             t == SortByStart(Tail(rows))
             before == SelectSeq(t, LAMBDA r : r.start_hour < h.start_hour)
             after == SelectSeq(t, LAMBDA r : r.start_hour >= h.start_hour)
         IN  before \o <<h>> \o after

RECURSIVE PlaceCips(_, _, _, _, _, _, _, _)
\* The placement loop of compute_cip_windows from CIP number cip_num on
\* (1-based), with gaps before index used_gap + 1 already used.
PlaceCips(Pp, l, gaps, run_before_gap, carryover, n_cip, cip_num, used_gap) ==
    IF cip_num > n_cip THEN << >>
    ELSE LET required_run == carryover + cip_num * Pp.cip_interval_h
             fits(j) ==
                 /\ run_before_gap[j] >= required_run
                 /\ gaps[j].g_end - gaps[j].g_start
                       >= Max2(Pp.cip_duration_h, gaps[j].co_h)
             cand == {j \in (used_gap + 1)..Len(gaps) : fits(j)}
         IN  IF cand = {} THEN << >>
             ELSE LET j == SetMin(cand)
                      eff == Max2(Pp.cip_duration_h, gaps[j].co_h)
                  IN  <<[line_id |-> l, start_hour |-> gaps[j].g_start,
                         end_hour |-> gaps[j].g_start + eff]>>
                      \o PlaceCips(Pp, l, gaps, run_before_gap, carryover,
                                   n_cip, cip_num + 1, j)

\* n_cip of compute_cip_windows: the count loop starts at r = carryover and
\* runs while r + interval_h <= total_run, where total_run is the carryover
\* plus the hours of the line's segments.
CipsRequiredLine(rows, d, Pp, l) ==
    LET segments == RowsOfLine(rows, l)
        carryover == InitOf(d, l).carryover_run_hours
        len == [i \in DOMAIN segments |->
                   segments[i].end_hour - segments[i].start_hour]
        total_run == carryover + SumOver(DOMAIN segments, len)
    IN  (total_run - carryover) \div Pp.cip_interval_h

\* compute_cip_windows for one line.
ComputeCipWindowsLine(rows, d, Pp, l) ==
    LET segments == SortByStart(RowsOfLine(rows, l))
        n == Len(segments)
        carryover == InitOf(d, l).carryover_run_hours
        gapAt(i) ==
            [g_start |-> segments[i].end_hour,
             g_end |-> segments[i + 1].start_hour,
             co_h |-> IF segments[i].sku # segments[i + 1].sku
                      THEN Setup(d, segments[i].sku, segments[i + 1].sku)
                      ELSE 0]
        gaps == SelectSeq([i \in 1..(n - 1) |-> gapAt(i)],
                          LAMBDA g : g.g_end > g.g_start)
        len == [i \in 1..n |-> segments[i].end_hour - segments[i].start_hour]
        run_before_gap == [i \in 1..n |-> carryover + SumOver(1..i, len)]
        n_cip == CipsRequiredLine(rows, d, Pp, l)
    IN  PlaceCips(Pp, l, gaps, run_before_gap, carryover, n_cip, 1, 0)

\* compute_cip_windows: post-solve placement, for the lines that have rows.
ComputeCipWindows(rows, d, Pp) ==
    LET ls == SortedSeq({rows[i].line_id : i \in DOMAIN rows})
    IN  Flatten([i \in 1..Len(ls) |-> ComputeCipWindowsLine(rows, d, Pp, ls[i])])

\* Hours of carry-over kept by write_week1_initial_states (119 in the
\* program: one less than the default CIP interval of 120).
DefaultCipInterval == WeekHours - 1
CarryClamp == DefaultCipInterval - 1

\* write_week1_initial_states: the state of each line at the end of the
\* schedule, as Data.load reads it back into init_map.
Week1InitialStates(rows, cips, d, set_available_from_schedule) ==
    [l \in d.lines |->
        LET prods == RowsOfLine(rows, l)
            lc == RowsOfLine(cips, l)
            last_cip_end ==
                IF lc = << >> THEN 0
                ELSE SetMax({lc[i].end_hour : i \in DOMAIN lc})
            last_end_hour ==
                IF prods = << >> THEN 0
                ELSE SetMax({prods[i].end_hour : i \in DOMAIN prods})
            last_run ==
                prods[SetMin({i \in DOMAIN prods :
                                 prods[i].end_hour = last_end_hour})]
            started_after ==
                {i \in DOMAIN prods : prods[i].start_hour >= last_cip_end}
            carryover ==
                IF prods = << >> THEN 0
                ELSE SumOver(started_after,
                             [i \in DOMAIN prods |-> prods[i].run_hours])
        IN  [initial_sku |-> IF prods = << >> THEN InitOf(d, l).initial_sku
                             ELSE last_run.sku,
             available_from |-> IF set_available_from_schedule
                                THEN Max2(last_end_hour, last_cip_end)
                                ELSE 0,
             long_shutdown_flag |-> 0,
             long_shutdown_extra |-> 0,
             carryover_run_hours |-> Min2(carryover, CarryClamp),
             last_cip_end_hour |->
                 IF prods # << >> /\ last_cip_end > 0 /\ lc # << >>
                 THEN last_cip_end ELSE None]]

----------------------------------------------------------------------------
(* phase2_scheduler: output files and the two phase models *)

\* A file as the previous run left it (present or not).
Prior == [prior |-> TRUE, rows |-> << >>]

\* A file written by this run.
Written(rows) == [prior |-> FALSE, rows |-> rows]

\* The status line of solver_kpis.txt.
KpiLine(prefix, st) == <<"Status:", prefix, st>>

\* A failure branch that hides the status of the solver.
FailureKpiGeneric(prefix, st) == Written(<<KpiLine(prefix, "ERROR")>>)

\* write_kpi_lines on the branch of a status that is not FEASIBLE / OPTIMAL.
FailureKpi(prefix, st) == Written(<<KpiLine(prefix, st)>>)

\* status in (cp_model.FEASIBLE, cp_model.OPTIMAL)
StatusOK(st) == st \in {"FEASIBLE", "OPTIMAL"}

\* The statuses a solve can end with without a solution: the time limit can
\* always expire (UNKNOWN); INFEASIBLE needs a model without solutions.
FailStatuses(sols) ==
    {"UNKNOWN"} \cup (IF sols = {} THEN {"INFEASIBLE"} ELSE {})

\* P0 of _run_two_phase: Week-0 horizon, no Week-1 fill.
Params0(Pp) ==
    [Pp EXCEPT !.horizon_h = WeekHours, !.allow_week1_in_week0 = FALSE]

\* P1 of _run_two_phase: the full two-week horizon.
Params1(Pp) ==
    [Pp EXCEPT !.horizon_h = 2 * WeekHours, !.allow_week1_in_week0 = FALSE]

\* orders_week0
InWeek0(o) == o.due_end <= WEEK0_END

\* orders_week1: trials that span the boundary or start in Week-1, and
\* demand orders that are due from Week-1 on.
InWeek1(o) ==
    IF o.is_trial
    THEN \/ o.trial_start_hour < WEEK1_START
            /\ o.trial_end_hour > WEEK0_END + 1
         \/ o.trial_start_hour >= WEEK1_START
    ELSE o.due_start >= WEEK1_START

\* data0: the loaded data with the Week-0 orders only.
Data0(d) == [d EXCEPT !.orders = SelectSeq(d.orders, InWeek0)]

\* data1: loaded with the intermediate week1_initial_states.csv; the
\* Week-1 orders, demand orders with due_start := 0.
Data1(d, states) ==
    LET sel == SelectSeq(d.orders, InWeek1)
    IN  [d EXCEPT
            !.orders = [i \in DOMAIN sel |->
                           IF sel[i].is_trial THEN sel[i]
                           ELSE [sel[i] EXCEPT !.due_start = 0]],
            !.init_map = states]

\* cip_vars of vars_dict is a non-empty dict (full phase, some line).
CipVarsTruthy(d, a) == a.phase = "full" /\ d.lines # {}

----------------------------------------------------------------------------
(* Inputs: the parameter, data and switch values the runs are checked on *)

Horizon == 2 * WeekHours

\* Params as main() builds it.
MkParams(mlpo, mrh, interval) ==
    [horizon_h |-> Horizon, cip_interval_h |-> interval, cip_duration_h |-> 1,
     max_lines_per_order |-> mlpo, min_run_hours |-> mrh,
     allow_week1_in_week0 |-> TRUE]

\* A demand order as _parse_demand returns it.
DemandOrder(id, sku, ds, de, qmin, qmax) ==
    [order_id |-> id, sku |-> sku, due_start |-> ds, due_end |-> de,
     qty_min |-> qmin, qty_max |-> qmax, is_trial |-> FALSE,
     trial_line |-> None, trial_start_hour |-> None,
     trial_end_hour |-> None, trial_run_hours |-> None]

\* A trial order as _parse_trials returns it (explicit end: no pinned
\* production hours).
TrialOrder(id, sku, line, tsh, teh, qmax) ==
    [order_id |-> id, sku |-> sku, due_start |-> tsh, due_end |-> teh - 1,
     qty_min |-> 0, qty_max |-> qmax, is_trial |-> TRUE,
     trial_line |-> line, trial_start_hour |-> tsh,
     trial_end_hour |-> teh, trial_run_hours |-> None]

\* A row of InitialStates.csv as Data.load reads it.
InitState(sku, avail, carry) ==
    [initial_sku |-> sku, available_from |-> avail, long_shutdown_flag |-> 0,
     long_shutdown_extra |-> 4, carryover_run_hours |-> carry,
     last_cip_end_hour |-> None]

MkArgs(two_phase, phase, relax, ignore_co, mlpo_override) ==
    [two_phase |-> two_phase, phase |-> phase, relax_demand |-> relax,
     ignore_co |-> ignore_co, max_lines_per_order |-> mlpo_override]

\* One line, two demand orders, full phase with changeovers.
FullInputs ==
    {[P |-> MkParams(1, mrh, DefaultCipInterval),
      data |-> [lines |-> {1},
                orders |-> <<DemandOrder("A", "A", 0, Horizon - 1, 1, 3),
                             DemandOrder("B", "B", 0, Horizon - 1, 1, 2)>>,
                rate2 |-> (<<1, "A">> :> 2) @@ (<<1, "B">> :> 2),
                capable |-> (<<1, "A">> :> 1) @@ (<<1, "B">> :> 1),
                setup |-> (<<"A", "B">> :> su) @@ (<<"B", "A">> :> su),
                init_map |-> (1 :> InitState(IF su = 1 THEN "B" ELSE "CLEAN",
                                             avail, carry)),
                cip_interval_map |-> << >>,
                downtimes |-> dts],
      args |-> MkArgs(FALSE, "full", FALSE, FALSE, None)] :
        mrh \in 1..2, su \in 0..1, avail \in 0..1,
        carry \in 0..(DefaultCipInterval - 1),
        dts \in {{}, {[line_id |-> 1, start |-> Horizon - 1,
                       end |-> Horizon + 1]}}}

\* Two lines, a demand order with a half-integer rate on line 1 and a
\* trial pinned to line 2, without CIPs.
SanityInputs ==
    {[P |-> MkParams(2, 1, DefaultCipInterval),
      data |-> [lines |-> {1, 2},
                orders |-> <<DemandOrder("A", "A", 0, WeekHours, 3, 5),
                             TrialOrder("TRIAL-T-L2", "T", 2, 0, 1, 1)>>,
                rate2 |-> (<<1, "A">> :> 5) @@ (<<2, "A">> :> 2)
                             @@ (<<2, "T">> :> 2),
                capable |-> (<<1, "A">> :> 1) @@ (<<2, "A">> :> 1),
                setup |-> (<<"A", "T">> :> 1) @@ (<<"T", "A">> :> 1),
                init_map |-> (1 :> InitState("CLEAN", 0, 0))
                                @@ (2 :> InitState("CLEAN", 0, 0)),
                cip_interval_map |-> << >>,
                downtimes |-> {}],
      args |-> MkArgs(FALSE, phase, relax, FALSE, ovr)] :
        phase \in {"sanity1", "sanity3"}, relax \in BOOLEAN,
        ovr \in {None, 1}}

NoSol == << >>

NoWeek0 == [schedule_rows |-> << >>, bounds_rows |-> << >>,
            cip_rows |-> << >>, init_map |-> << >>]

\* No exception has been raised.
NoExc == [stage |-> "none", type |-> "none"]

\* The document _read returns when there is no readable file.
DefaultDoc == [stage |-> "none", solutions |-> 0, stats |-> "none",
               summary |-> FALSE]

\* No solver_progress.json, no temp file, no update under way.
NoProgress ==
    [file |-> [kind |-> "missing", body |-> DefaultDoc],
     tmp |-> [kind |-> "missing", body |-> DefaultDoc],
     wpc |-> "idle", new |-> DefaultDoc, started |-> 0, written |-> 0]

\* The state of a run of main() at position p, before any output.
InitAt(inputs, p) ==
    /\ \E inp \in inputs : P = inp.P /\ data = inp.data /\ args = inp.args
    /\ pc = p
    /\ exc = NoExc
    /\ err_log = << >>
    /\ progress = NoProgress
    /\ stages = << >>
    /\ status = "NONE"
    /\ sol = NoSol
    /\ schedule_rows = << >>
    /\ bounds_rows = << >>
    /\ cip_rows = << >>
    /\ files = [schedule |-> Prior, cip |-> Prior, bounds |-> Prior,
                week1 |-> Prior]
    /\ kpi = Prior
    /\ w0 = NoWeek0

\* The state when main() enters its try block: Params assembled, switches
\* read.
InitWith(inputs) == InitAt(inputs, "start")

----------------------------------------------------------------------------
(* main(), single phase *)

\* write_solution: the files after a FEASIBLE / OPTIMAL single-phase solve.
WriteSolution(fs, Pp, d, a, s) ==
    LET rows == ScheduleRows(d, s, 0)
        cips == IF rows = << >> THEN << >>
                ELSE IF CipVarsTruthy(d, a) THEN ExtractCipWindows(d, s, 0)
                ELSE ComputeCipWindows(rows, d, Pp)
    IN  [schedule |-> IF rows # << >> THEN Written(rows) ELSE fs.schedule,
         cip |-> IF cips # << >> THEN Written(cips) ELSE fs.cip,
         week1 |-> IF rows # << >>
                   THEN Written(Week1InitialStates(rows, cips, d, FALSE))
                   ELSE fs.week1,
         bounds |-> Written(BoundsRows(d, s))]

\* The solve ends FEASIBLE or OPTIMAL with one of the solutions sols:
\* outputs and KPI file are written.
SolveSingleOK(sols) ==
    /\ \E s \in sols : \E st \in {"FEASIBLE", "OPTIMAL"} :
          LET rows == ScheduleRows(data, s, 0)
              fs == WriteSolution(files, P, data, args, s)
          IN  /\ status' = st
              /\ sol' = s
              /\ schedule_rows' = rows
              /\ bounds_rows' = BoundsRows(data, s)
              /\ cip_rows' = (IF fs.cip.prior THEN << >> ELSE fs.cip.rows)
              /\ files' = fs
              /\ kpi' = Written(<<KpiLine("", st)>>)
    /\ pc' = "done"
    /\ UNCHANGED <<P, data, args, w0>>

\* The solve ends with another status: only the KPI file is written.
SolveSingleFail(sols) ==
    /\ \E st \in FailStatuses(sols) :
          /\ status' = st
          /\ kpi' = FailureKpi("", st)
    /\ pc' = "done"
    /\ UNCHANGED <<P, data, args, sol, schedule_rows, bounds_rows, cip_rows,
                   files, w0>>

\* main() without --two-phase: build the model, solve, branch on the status.
SolveSingle ==
    /\ pc = "start" /\ ~args.two_phase
    /\ LET sols == Solutions(P, data, args)
       IN  SolveSingleOK(sols) \/ SolveSingleFail(sols)
    /\ UNCHANGED aux

InitSingle == InitWith(FullInputs \cup SanityInputs)

NextSingle == SolveSingle

SpecSingle == InitSingle /\ [][NextSingle]_vars

InitSanity == InitWith(SanityInputs)

\* Single-phase runs of the sanity phases.
SpecSanity == InitSanity /\ [][NextSingle]_vars

----------------------------------------------------------------------------
(* _run_two_phase *)

\* The due hours a demand order of the two-phase inputs can carry.
DueHours == {0, WEEK0_END, WEEK1_START, Horizon - 1}

\* The second order of a two-phase input: a Week-0 demand order, a Week-0
\* demand order larger than the line can produce in a week, a Week-1
\* demand order, or a trial in Week-0, across the boundary or in Week-1.
SecondOrders ==
    {DemandOrder("B", "B", 0, WEEK0_END, 1, 1),
     DemandOrder("D", "B", 0, WEEK0_END, WeekHours + 1, WeekHours + 1),
     DemandOrder("C", "B", WEEK1_START, Horizon - 1, 1, 1),
     TrialOrder("TRIAL-T-L1", "T", 1, 0, 1, 1),
     TrialOrder("TRIAL-T-L1", "T", 1, WEEK0_END, WEEK1_START + 1, 2),
     TrialOrder("TRIAL-T-L1", "T", 1, WEEK1_START, WEEK1_START + 1, 1)}

\* One line, a demand order with any due window and a second order, in
\* every run mode.
TwoPhaseInputs ==
    {[P |-> MkParams(1, 1, DefaultCipInterval),
      data |-> [lines |-> {1},
                orders |-> <<DemandOrder("A", "A", ds, de, 0, 1), x>>,
                rate2 |-> (<<1, "A">> :> 2) @@ (<<1, "B">> :> 2)
                             @@ (<<1, "T">> :> 2),
                capable |-> (<<1, "A">> :> 1) @@ (<<1, "B">> :> 1),
                setup |-> (<<"A", "B">> :> 1) @@ (<<"B", "A">> :> 1),
                init_map |-> (1 :> InitState("CLEAN", 0, 0)),
                cip_interval_map |-> << >>,
                downtimes |-> {}],
      args |-> MkArgs(TRUE, phase, FALSE, ico, None)] :
        ds \in DueHours, de \in DueHours, x \in SecondOrders,
        phase \in {"sanity1", "sanity3", "full"}, ico \in BOOLEAN}

\* The outputs of the Week-0 solve only (no Week-1 orders, or Week-1
\* failed).
WriteWeek0Only(fs, w) ==
    [schedule |-> Written(w.schedule_rows),
     cip |-> IF w.cip_rows # << >> THEN Written(w.cip_rows) ELSE fs.cip,
     bounds |-> Written(w.bounds_rows),
     week1 |-> fs.week1]

\* What the Week-0 solve leaves: its rows and the intermediate
\* week1_initial_states.csv (available_from from the schedule).
Week0Result(d0, s) ==
    LET rows == ScheduleRows(d0, s, 0)
        cips == ExtractCipWindows(d0, s, 0)
    IN  [schedule_rows |-> rows, bounds_rows |-> BoundsRows(d0, s),
         cip_rows |-> cips,
         init_map |-> Week1InitialStates(rows, cips, d0, TRUE)]

\* No order is due within Week-0: the run stops.
TwoPhaseNoWeek0 ==
    /\ pc = "start" /\ args.two_phase
    /\ Data0(data).orders = << >>
    /\ kpi' = Written(<<KpiLine("TWO_PHASE", "no Week-0 orders")>>)
    /\ pc' = "done"
    /\ UNCHANGED <<P, data, args, status, sol, schedule_rows, bounds_rows,
                   cip_rows, files, w0>>
    /\ UNCHANGED aux

\* Week-0 ends with a status that is not FEASIBLE / OPTIMAL: the run stops.
SolveWeek0Fail(sols) ==
    /\ \E st \in FailStatuses(sols) :
          /\ status' = st
          /\ kpi' = FailureKpi("TWO_PHASE Week-0", st)
    /\ pc' = "done"
    /\ UNCHANGED <<P, data, args, sol, schedule_rows, bounds_rows, cip_rows,
                   files, w0>>

\* Week-0 is solved and there are Week-1 orders: the intermediate line
\* states are written and Week-1 is next.
SolveWeek0OK(sols) ==
    /\ \E s \in sols : \E st \in {"FEASIBLE", "OPTIMAL"} :
          LET w == Week0Result(Data0(data), s)
          IN  /\ Data1(data, w.init_map).orders # << >>
              /\ status' = st
              /\ sol' = s
              /\ w0' = w
              /\ schedule_rows' = w.schedule_rows
              /\ bounds_rows' = w.bounds_rows
              /\ cip_rows' = w.cip_rows
              /\ files' = [files EXCEPT !.week1 = Written(w.init_map)]
    /\ pc' = "week1"
    /\ UNCHANGED <<P, data, args, kpi>>

\* Week-0 is solved and no order belongs to Week-1: the Week-0 outputs are
\* the outputs of the run.
SolveWeek0NoWeek1(sols) ==
    /\ \E s \in sols : \E st \in {"FEASIBLE", "OPTIMAL"} :
          LET w == Week0Result(Data0(data), s)
          IN  /\ Data1(data, w.init_map).orders = << >>
              /\ status' = st
              /\ sol' = s
              /\ w0' = w
              /\ schedule_rows' = w.schedule_rows
              /\ bounds_rows' = w.bounds_rows
              /\ cip_rows' = w.cip_rows
              /\ files' = WriteWeek0Only(
                             [files EXCEPT !.week1 = Written(w.init_map)], w)
    /\ kpi' = Written(<<KpiLine("TWO_PHASE",
                                "Week-0 FEASIBLE, no Week-1 orders")>>)
    /\ pc' = "done"
    /\ UNCHANGED <<P, data, args>>

\* _run_two_phase up to the end of the Week-0 solve: build the Week-0
\* model, solve, branch on the status.
SolveWeek0 ==
    /\ pc = "start" /\ args.two_phase
    /\ Data0(data).orders # << >>
    /\ LET sols == Solutions(Params0(P), Data0(data), args)
       IN  \/ SolveWeek0Fail(sols)
           \/ SolveWeek0OK(sols)
           \/ SolveWeek0NoWeek1(sols)
    /\ UNCHANGED aux

\* Week-1 is solved: the combined outputs and the final line states are
\* written.
SolveWeek1OK(sols) ==
    /\ LET d1 == Data1(data, w0.init_map)
       IN  \E s \in sols : \E st \in {"FEASIBLE", "OPTIMAL"} :
              LET combined_schedule ==
                      w0.schedule_rows \o ScheduleRows(d1, s, 0)
                  combined_bounds == w0.bounds_rows \o BoundsRows(d1, s)
                  combined_cips ==
                      w0.cip_rows \o ExtractCipWindows(d1, s, 0)
              IN  /\ status' = st
                  /\ sol' = s
                  /\ schedule_rows' = combined_schedule
                  /\ bounds_rows' = combined_bounds
                  /\ cip_rows' = combined_cips
                  /\ files' =
                        [schedule |-> Written(combined_schedule),
                         bounds |-> Written(combined_bounds),
                         cip |-> IF combined_cips # << >>
                                 THEN Written(combined_cips) ELSE files.cip,
                         week1 |-> Written(Week1InitialStates(
                                      combined_schedule, combined_cips, d1,
                                      FALSE))]
    /\ kpi' = Written(<<KpiLine("TWO_PHASE", "Week-0 and Week-1 FEASIBLE")>>)
    /\ pc' = "done"
    /\ UNCHANGED <<P, data, args, w0>>

\* Week-1 ends with another status: the Week-0 outputs are written.
SolveWeek1Fail(sols) ==
    /\ \E st \in FailStatuses(sols) :
          /\ status' = st
          /\ kpi' = Written(<<KpiLine("TWO_PHASE Week-0 FEASIBLE, Week-1", st)>>)
    /\ files' = WriteWeek0Only(files, w0)
    /\ pc' = "done"
    /\ UNCHANGED <<P, data, args, sol, schedule_rows, bounds_rows, cip_rows,
                   w0>>

\* _run_two_phase from the Week-1 data load on: build the Week-1 model,
\* solve, branch on the status.
SolveWeek1 ==
    /\ pc = "week1"
    /\ LET sols == Solutions(Params1(P), Data1(data, w0.init_map), args)
       IN  SolveWeek1OK(sols) \/ SolveWeek1Fail(sols)
    /\ UNCHANGED aux

InitTwoPhase == InitWith(TwoPhaseInputs)

NextTwoPhase ==
    \/ TwoPhaseNoWeek0
    \/ SolveWeek0
    \/ SolveWeek1

SpecTwoPhase == InitTwoPhase /\ [][NextTwoPhase]_vars

----------------------------------------------------------------------------
(* validate_schedule *)

RECURSIVE CipSpacingScan(_, _, _, _, _, _)
\* The loop of check_cip_spacing over the sorted segments of one line from
\* segment i on, with cip_idx CIPs passed: the segments whose clock at
\* their end exceeds the limit.
CipSpacingScan(segs, cips, i, cip_idx, last_reference, limit) ==
    IF i > Len(segs) THEN {}
    ELSE LET st == segs[i].start_hour
             passed == {k \in (cip_idx + 1)..Len(cips) :
                          \A m \in (cip_idx + 1)..k : cips[m].start_hour <= st}
             idx == IF passed = {} THEN cip_idx ELSE SetMax(passed)
             ref == IF passed = {} THEN last_reference
                    ELSE cips[idx].end_hour
             clock_at_end == segs[i].end_hour - ref
         IN  (IF clock_at_end > limit
              THEN {[line_id |-> segs[i].line_id, at |-> segs[i].end_hour,
                     clock |-> clock_at_end]}
              ELSE {})
             \cup CipSpacingScan(segs, cips, i + 1, idx, ref, limit)

\* check_cip_spacing: the issues over all lines that have schedule rows.
\* interval[l] is the line's interval, carry[l] its initial carry-over and
\* tolerance the slack the check adds to the interval.
CheckCipSpacing(rows, cips, carry, interval, tolerance) ==
    UNION {LET segs == SortByStart(RowsOfLine(rows, l))
               lc == SortByStart(RowsOfLine(cips, l))
           IN  CipSpacingScan(segs, lc, 1, 0, segs[1].start_hour - carry[l],
                              interval[l] + tolerance) :
             l \in {rows[i].line_id : i \in DOMAIN rows}}

\* check_changeover_timing: the adjacent different-SKU rows of a line whose
\* gap is shorter than the setup time.
CheckChangeoverTiming(rows, d) ==
    UNION {LET rs == SortByStart(RowsOfLine(rows, l))
           IN  {[prev |-> rs[i], next |-> rs[i + 1]] :
                  i \in {k \in 1..(Len(rs) - 1) :
                           /\ rs[k].sku # rs[k + 1].sku
                           /\ rs[k + 1].start_hour - rs[k].end_hour
                                 < Setup(d, rs[k].sku, rs[k + 1].sku)}} :
             l \in {rows[i].line_id : i \in DOMAIN rows}}

\* check_produced_vs_bounds: the demand orders missing from the produced
\* rows.
MissingFromProduced(bounds, d) ==
    {d.orders[i].order_id : i \in {k \in DOMAIN d.orders : ~d.orders[k].is_trial}}
        \ {bounds[i].order_id : i \in DOMAIN bounds}

----------------------------------------------------------------------------
(* Properties of single-phase runs *)

\* A single-phase run that ended FEASIBLE or OPTIMAL and wrote its outputs.
SolvedSingle == pc = "done" /\ ~args.two_phase /\ StatusOK(status)

\* C1: in full phase, on every line of a feasible solution the present
\* seg_a and seg_b segments, the present CIPs and the line's clipped
\* downtimes are pairwise non-overlapping.
C1_NoOverlap ==
    (SolvedSingle /\ args.phase = "full") =>
        \A l \in data.lines :
            LET ivs == SegIntervals(data, sol[l].segs)
                          \cup CipIntervals(sol[l].cips)
                          \cup DowntimeIntervals(P, data, l)
            IN  \A x \in ivs : \A y \in ivs :
                    x.id # y.id => (x.e <= y.s \/ y.e <= x.s)

\* C1 witness: a line with a split order, a present CIP and a downtime.
C1_Witness ==
    /\ SolvedSingle /\ args.phase = "full"
    /\ \E l \in data.lines :
          /\ \E oi \in NOrders(data) : sol[l].segs[oi].sb_p
          /\ sol[l].cips[1].b
          /\ DowntimeIntervals(P, data, l) # {}

\* int(round(r)) stated directly: the nearest integer to r2 / 2, the even one
\* of the two when r2 / 2 is half-way.
NearestEven(r2) ==
    CHOOSE n \in 0..(r2 + 1) :
        /\ 2 * n - 1 <= r2 /\ r2 <= 2 * n + 1
        /\ (r2 % 2 = 1) => (n % 2 = 0)

\* C2: for every order, produced(o) is the sum over lines of
\* round(rate) * run_h, and lies in [qty_min, qty_max], with lower bound 0
\* when relax_demand is set.
C2_ProducedBounds ==
    SolvedSingle =>
        \A oi \in NOrders(data) :
            LET o == data.orders[oi]
                term == [l \in data.lines |->
                            NearestEven(Rate2(data, l, o.sku))
                                * RunH(sol[l].segs[oi])]
                total == SumOver(data.lines, term)
            IN  /\ bounds_rows[oi].produced = total
                /\ bounds_rows[oi].produced
                      >= (IF args.relax_demand THEN 0 ELSE o.qty_min)
                /\ bounds_rows[oi].produced <= o.qty_max

\* C2 witness: with relax_demand, an order made on a line with a
\* half-integer rate whose produced quantity is below its qty_min.
C2_Witness ==
    /\ SolvedSingle /\ args.relax_demand
    /\ \E oi \in NOrders(data) :
          /\ \E l \in data.lines :
                /\ Rate2(data, l, data.orders[oi].sku) % 2 = 1
                /\ RunH(sol[l].segs[oi]) > 0
          /\ bounds_rows[oi].produced > 0
          /\ bounds_rows[oi].produced < data.orders[oi].qty_min

\* C3: in full phase, on every line with an eligible order, CIP k is
\* present iff clock_span + carry >= k * I (clock_span: last effective end
\* minus first start of the present orders, 0 when none); a line with
\* production whose clock_span + carry reaches k * I has at least k CIP rows.
C3_CipCount ==
    (SolvedSingle /\ args.phase = "full") =>
        \A l \in data.lines :
            LET segs == sol[l].segs
                pres == {oi \in NOrders(data) : segs[oi].present}
                ends == {IF segs[oi].sb_p THEN segs[oi].sb_e
                         ELSE segs[oi].sa_e : oi \in pres}
                starts == {segs[oi].sa_s : oi \in pres}
                clock_span == IF pres = {} THEN 0
                              ELSE SetMax(ends) - SetMin(starts)
                carry == InitOf(data, l).carryover_run_hours
                n_rows == Len(RowsOfLine(cip_rows, l))
            IN  EligIdxs(data, l) # {} =>
                  \A k \in 1..3 :
                     /\ sol[l].cips[k].b
                           <=> (clock_span + carry >= k * P.cip_interval_h)
                     /\ (pres # {} /\ clock_span + carry >= k * P.cip_interval_h)
                           => n_rows >= k

\* C3 witness: a line whose production has a gap and that needs a second
\* CIP.
C3_Witness ==
    /\ SolvedSingle /\ args.phase = "full"
    /\ \E l \in data.lines :
          /\ sol[l].cips[2].b
          /\ Len(RowsOfLine(cip_rows, l)) >= 2
          /\ \E i \in DOMAIN schedule_rows : \E j \in DOMAIN schedule_rows :
                /\ schedule_rows[i].line_id = l /\ schedule_rows[j].line_id = l
                /\ schedule_rows[i].end_hour < schedule_rows[j].start_hour

\* C4: in full phase with changeovers and carry in [0, I-1], the schedule
\* passes the validator's CIP-spacing rule with zero tolerance: for every
\* production row, end_hour - ref <= I.
C4_CipSpacing ==
    (/\ SolvedSingle /\ args.phase = "full" /\ ChangeoversOn(args)
     /\ \A l \in data.lines :
            InitOf(data, l).carryover_run_hours \in 0..(P.cip_interval_h - 1))
    => CheckCipSpacing(schedule_rows, cip_rows,
                       [l \in data.lines |-> InitOf(data, l).carryover_run_hours],
                       [l \in data.lines |-> P.cip_interval_h], 0) = {}

\* C4 witness: a line with carry-over, production before its first CIP and
\* production after its last CIP.
C4_Witness ==
    /\ SolvedSingle /\ args.phase = "full" /\ ChangeoversOn(args)
    /\ \E l \in data.lines :
          /\ InitOf(data, l).carryover_run_hours > 0
          /\ InitOf(data, l).carryover_run_hours < P.cip_interval_h
          /\ \E c \in DOMAIN cip_rows : \E i, j \in DOMAIN schedule_rows :
                /\ cip_rows[c].line_id = l
                /\ schedule_rows[i].line_id = l /\ schedule_rows[j].line_id = l
                /\ schedule_rows[i].end_hour <= cip_rows[c].start_hour
                /\ cip_rows[c].end_hour <= schedule_rows[j].start_hour

\* C5: with changeovers enabled, adjacent different-SKU rows of a line are
\* at least setup(prev.sku, next.sku) apart, unless a CIP at least that long
\* lies entirely between them.
C5_ChangeoverGap ==
    (SolvedSingle /\ ChangeoversOn(args)) =>
        \A l \in data.lines :
            LET rs == SortByStart(RowsOfLine(schedule_rows, l))
            IN  \A i \in 1..(Len(rs) - 1) :
                   rs[i].sku # rs[i + 1].sku =>
                      LET need == Setup(data, rs[i].sku, rs[i + 1].sku)
                      IN  \/ rs[i + 1].start_hour - rs[i].end_hour >= need
                          \/ \E c \in DOMAIN cip_rows :
                                /\ cip_rows[c].line_id = l
                                /\ rs[i].end_hour <= cip_rows[c].start_hour
                                /\ cip_rows[c].end_hour <= rs[i + 1].start_hour
                                /\ cip_rows[c].end_hour - cip_rows[c].start_hour
                                      >= need

\* C5 witness: adjacent rows of different SKUs with a positive setup time.
C5_Witness ==
    /\ SolvedSingle /\ ChangeoversOn(args)
    /\ \E l \in data.lines :
          LET rs == SortByStart(RowsOfLine(schedule_rows, l))
          IN  \E i \in 1..(Len(rs) - 1) :
                 /\ rs[i].sku # rs[i + 1].sku
                 /\ Setup(data, rs[i].sku, rs[i + 1].sku) > 0
                 /\ rs[i + 1].start_hour - rs[i].end_hour
                       = Setup(data, rs[i].sku, rs[i + 1].sku)

\* C6: every schedule row, from a primary or a continuation segment, has
\* start_hour < end_hour and end_hour - start_hour = run_hours >=
\* min_run_hours.
C6_RowShape ==
    SolvedSingle =>
        \A i \in DOMAIN schedule_rows :
            LET r == schedule_rows[i]
            IN  /\ r.start_hour < r.end_hour
                /\ r.end_hour - r.start_hour = r.run_hours
                /\ r.run_hours >= P.min_run_hours

\* C6 witness: an order split by a CIP into two rows.
C6_Witness ==
    /\ SolvedSingle
    /\ \E i, j \in DOMAIN schedule_rows :
          /\ i < j
          /\ schedule_rows[i].line_id = schedule_rows[j].line_id
          /\ schedule_rows[i].order_id = schedule_rows[j].order_id

\* C7: each non-trial order is on at most mlpo lines (the override when one
\* is passed, else the parameter); each trial order is on exactly its
\* pinned line.
C7_LinesPerOrder ==
    SolvedSingle =>
        \A oi \in NOrders(data) :
            LET o == data.orders[oi]
                on == {l \in data.lines : sol[l].segs[oi].present}
                limit == IF args.max_lines_per_order # None
                         THEN args.max_lines_per_order
                         ELSE P.max_lines_per_order
            IN  IF o.is_trial THEN on = {o.trial_line}
                ELSE Cardinality(on) <= limit

\* C7 witness: an override of 1 below the parameter, a demand order on one
\* line and a trial on its pinned line.
C7_Witness ==
    /\ SolvedSingle
    /\ args.max_lines_per_order = 1 /\ P.max_lines_per_order > 1
    /\ \E oi \in NOrders(data) :
          /\ ~data.orders[oi].is_trial
          /\ Cardinality({l \in data.lines : sol[l].segs[oi].present}) = 1
    /\ \E oi \in NOrders(data) :
          /\ data.orders[oi].is_trial
          /\ sol[data.orders[oi].trial_line].segs[oi].present


----------------------------------------------------------------------------
(* Properties of two-phase runs *)

\* A two-phase run whose Week-0 and Week-1 solves both ended FEASIBLE or
\* OPTIMAL: the combined outputs are written.
SolvedTwoPhase ==
    /\ pc = "done" /\ args.two_phase
    /\ kpi = Written(<<KpiLine("TWO_PHASE", "Week-0 and Week-1 FEASIBLE")>>)

\* The rows the Week-1 solve contributed to the combined schedule.
Week1Rows == ScheduleRows(Data1(data, w0.init_map), sol, 0)

\* The CIP windows the Week-1 solve contributed to the combined CIP file.
Week1Cips == ExtractCipWindows(Data1(data, w0.init_map), sol, 0)

\* C8: in the Week-1 phase of a two-phase run, in every run mode, every
\* production segment and every CIP of a line starts at or after the
\* available_from the line inherited from Week-0, so that no Week-1 block
\* of the merged schedule overlaps a Week-0 block of the same line.
C8_Week1AfterAvailable ==
    SolvedTwoPhase =>
        /\ \A i \in DOMAIN Week1Rows :
              Week1Rows[i].start_hour
                  >= w0.init_map[Week1Rows[i].line_id].available_from
        /\ \A i \in DOMAIN Week1Cips :
              Week1Cips[i].start_hour
                  >= w0.init_map[Week1Cips[i].line_id].available_from
        /\ \A i \in DOMAIN Week1Rows : \A j \in DOMAIN w0.schedule_rows :
              Week1Rows[i].line_id = w0.schedule_rows[j].line_id
                  => \/ Week1Rows[i].end_hour <= w0.schedule_rows[j].start_hour
                     \/ w0.schedule_rows[j].end_hour <= Week1Rows[i].start_hour

\* The demand and trial orders that _run_two_phase puts in the Week-0 model
\* and in the Week-1 model, by position in the loaded order list.
PhasesOf(o) ==
    (IF InWeek0(o) THEN {"week0"} ELSE {})
        \cup (IF InWeek1(o) THEN {"week1"} ELSE {})

\* C9: in a two-phase run every loaded order is in exactly one of the two
\* phase models, whatever its due_start / due_end (or trial hours), so that
\* every demand order has a row in the produced_vs_bounds output the run
\* writes.
C9_ExactlyOnePhase ==
    (pc = "done" /\ args.two_phase /\ ~files.bounds.prior) =>
        /\ \A i \in DOMAIN data.orders :
              Cardinality(PhasesOf(data.orders[i])) = 1
        /\ MissingFromProduced(files.bounds.rows, data) = {}

\* The prefix of the KPI status line on the failure branch of the run mode.
FailurePrefix == IF args.two_phase THEN "TWO_PHASE Week-0" ELSE ""

\* C10: when the single-phase solve, or the Week-0 solve of a two-phase run,
\* ends with a status other than FEASIBLE / OPTIMAL, the four output files
\* stay as they were before the run, the KPI file carries the status string
\* of the solver, and the run is over: the Week-1 model is never built or
\* solved.
C10_FailureLeavesOutputs ==
    [][(pc = "start" /\ status' \notin {"NONE", "FEASIBLE", "OPTIMAL"}) =>
          /\ files' = files
          /\ \A f \in {"schedule", "bounds", "cip", "week1"} :
                files'[f] = Prior
          /\ ~kpi'.prior
          /\ \E i \in DOMAIN kpi'.rows :
                kpi'.rows[i] = KpiLine(FailurePrefix, status')
          /\ pc' = "done"
          /\ sol' = NoSol /\ w0' = NoWeek0]_vars

\* A two-phase run stopped by a Week-0 solve without solution.
C10_Witness ==
    /\ pc = "done" /\ args.two_phase
    /\ status = "INFEASIBLE"
    /\ w0 = NoWeek0
    /\ Data0(data).orders # << >>
    /\ kpi = Written(<<KpiLine("TWO_PHASE Week-0", "INFEASIBLE")>>)

InitAll == InitWith(FullInputs \cup SanityInputs \cup TwoPhaseInputs)

NextAll == NextSingle \/ NextTwoPhase

\* Runs of main() in either mode.
SpecAll == InitAll /\ [][NextAll]_vars

----------------------------------------------------------------------------
(* main(): parameter assembly, the try block and the validation step *)

\* args with the --validate switch.
WithValidate(a, v) == [validate |-> v] @@ a

\* The exception types a step of main() is checked with: one of those the
\* validation step catches (OSError, ValueError, KeyError) and one it does
\* not.
ExcTypes == {"OSError", "TypeError"}

\* The entry log() appends to solver_error.txt for a caught exception.
FatalEntry(type) == <<"=== FATAL ERROR ===", type>>
ValidateEntry(type) == <<"[validate]", type>>

\* The KPI line of the top-level except clause.
ErrorKpiLine(type) == KpiLine("ERROR", type)

\* main() up to its try statement: Params() and the config overrides, the
\* re-construction of Params when --max-lines-per-order is given, reset_err,
\* the START log line and init_progress.  Params has no field
\* use_sku_rates, so the re-construction raises (AttributeError on
\* P.use_sku_rates, or TypeError from Params(...) when the config set the
\* attribute); no try statement encloses it.  reset_err, log and
\* init_progress swallow their own exceptions.
AssembleParams ==
    /\ pc = "main"
    /\ IF args.max_lines_per_order # None
       THEN /\ exc' = [stage |-> "params", type |-> "AttributeError"]
            /\ pc' = "crashed"
       ELSE /\ exc' = exc
            /\ pc' = "start"
    /\ UNCHANGED <<P, data, args, status, sol, schedule_rows, bounds_rows,
                   cip_rows, files, kpi, w0, err_log, progress, stages>>

\* An exception inside the try block before the output files of the phase
\* are written (data loading, model building, solving): the except clause
\* logs the trace and writes the ERROR status line.
RunRaises ==
    /\ pc \in {"start", "week1"}
    /\ \E stage \in {"loading_data", "building_model", "solving"} :
       \E type \in ExcTypes :
          /\ pc = "week1" => stage # "loading_data"
          /\ exc' = [stage |-> stage, type |-> type]
          /\ err_log' = Append(err_log, FatalEntry(type))
          /\ kpi' = Written(<<ErrorKpiLine(type)>>)
    /\ pc' = "done"
    /\ UNCHANGED <<P, data, args, status, sol, schedule_rows, bounds_rows,
                   cip_rows, files, w0, progress, stages>>

\* The post-solve validation: skipped without --validate; validate_all may
\* raise, and the except clause takes OSError, ValueError and KeyError only.
\* A caught exception is logged; the KPI file is not touched.
Validate ==
    /\ pc = "done"
    /\ IF ~args.validate
       THEN pc' = "exit" /\ UNCHANGED <<exc, err_log>>
       ELSE \/ pc' = "exit" /\ UNCHANGED <<exc, err_log>>
            \/ /\ exc' = [stage |-> "validating", type |-> "OSError"]
               /\ err_log' = Append(err_log, ValidateEntry("OSError"))
               /\ pc' = "exit"
            \/ /\ exc' = [stage |-> "validating", type |-> "TypeError"]
               /\ pc' = "crashed"
               /\ UNCHANGED err_log
    /\ UNCHANGED <<P, data, args, status, sol, schedule_rows, bounds_rows,
                   cip_rows, files, kpi, w0, progress, stages>>

\* Runs of main() from its first line: the two-line sanity inputs with and
\* without --max-lines-per-order, and two-phase runs with and without a
\* Week-0 order.
MainInputs ==
    {[P |-> inp.P, data |-> inp.data, args |-> WithValidate(inp.args, v)] :
        inp \in {x \in SanityInputs : x.args.phase = "sanity1"}
                \cup {x \in TwoPhaseInputs :
                        /\ x.args.phase = "sanity1" /\ ~x.args.ignore_co
                        /\ \/ /\ x.data.orders[1].due_start = 0
                              /\ x.data.orders[1].due_end = WEEK0_END
                           \/ /\ x.data.orders[1].due_start = WEEK1_START
                              /\ x.data.orders[1].due_end = Horizon - 1
                        /\ x.data.orders[2].order_id = "C"},
        v \in BOOLEAN}

InitMain == InitAt(MainInputs, "main")

NextMain ==
    \/ AssembleParams
    \/ SolveSingle
    \/ TwoPhaseNoWeek0
    \/ SolveWeek0
    \/ SolveWeek1
    \/ RunRaises
    \/ Validate

SpecMain == InitMain /\ [][NextMain]_vars

\* C11: any exception raised at any point of a run of main() is caught at
\* the top level: its trace is in the error log, the KPI file ends with a
\* "Status: ERROR" line, and the process does not end with an uncaught
\* exception.
C11_ExceptionsCaught ==
    exc # NoExc =>
        /\ pc # "crashed"
        /\ \E i \in DOMAIN err_log : err_log[i] = FatalEntry(exc.type)
        /\ ~kpi.prior
        /\ kpi.rows[Len(kpi.rows)] = ErrorKpiLine(exc.type)

----------------------------------------------------------------------------
(* Properties of the files a two-phase run leaves *)

\* C12: at the end of every two-phase run that wrote
\* week1_initial_states.csv, the file has available_from_hour = 0 on every
\* line, on every exit path after the Week-0 solve (Week-1 solved, Week-1
\* without solution, no Week-1 orders).
C12_FinalStatesAvailableZero ==
    (pc = "done" /\ args.two_phase /\ ~files.week1.prior) =>
        \A l \in DOMAIN files.week1.rows :
            files.week1.rows[l].available_from = 0

\* rows is what file f holds, or the head of it.
HoldsRows(f, rows) ==
    /\ ~f.prior
    /\ Len(f.rows) >= Len(rows)
    /\ SubSeq(f.rows, 1, Len(rows)) = rows

\* C13: in a two-phase run the Week-0 output (schedule rows, CIP rows,
\* produced-vs-bounds rows) is in the output files before the Week-1 model
\* is built or solved, and stays there whatever happens in the Week-1
\* phase.
C13_Week0Persisted ==
    (args.two_phase /\ w0 # NoWeek0) =>
        /\ HoldsRows(files.schedule, w0.schedule_rows)
        /\ HoldsRows(files.bounds, w0.bounds_rows)
        /\ w0.cip_rows # << >> => HoldsRows(files.cip, w0.cip_rows)

----------------------------------------------------------------------------
(* helpers/solver_progress: the progress file and its writer *)

\* Updates of the progress file one run is checked with.
MaxUpdates == 3

\* The document an update writes, from the document _read returned.
\* init_progress starts from scratch; the others change one part.
UpdatedDoc(kind, state) ==
    CASE kind = "init_progress" ->
             [DefaultDoc EXCEPT !.stage = "pending"]
      [] kind = "update_stage" ->
             \* no stage entry matches in a document without stages
             IF state.stage = "none" THEN state
             ELSE [state EXCEPT !.stage = IF @ = "pending" THEN "active"
                                          ELSE "done"]
      [] kind = "set_data_summary" -> [state EXCEPT !.summary = TRUE]
      [] kind = "add_solution" ->
             [state EXCEPT !.solutions = @ + 1]
      [] kind = "update_solver_stats" -> [state EXCEPT !.stats = "SOLVING"]

\* _read: the document of the file, the default when the file is missing
\* or does not parse.
ReadDoc(f) == IF f.kind = "complete" THEN f.body ELSE DefaultDoc

\* One of the public update functions is called: _read, then _write up to
\* the end of json.dump into the temp file.  mkstemp or the dump may raise
\* (the except clause then falls back to the direct write).
ProgressUpdate ==
    /\ progress.wpc = "idle"
    /\ progress.started < MaxUpdates
    /\ \E kind \in {"init_progress", "update_stage", "set_data_summary",
                    "add_solution", "update_solver_stats"} :
          LET new == UpdatedDoc(kind, ReadDoc(progress.file))
          IN  /\ progress.started = 0 => kind = "init_progress"
              /\ \/ progress' =
                       [progress EXCEPT
                           !.new = new, !.started = @ + 1,
                           !.tmp = [kind |-> "complete", body |-> new],
                           !.wpc = "dumped"]
                 \/ progress' =
                       [progress EXCEPT
                           !.new = new, !.started = @ + 1,
                           !.wpc = "fallback"]
    /\ UNCHANGED <<P, data, args, pc, status, sol, schedule_rows,
                   bounds_rows, cip_rows, files, kpi, w0, exc, err_log,
                   stages>>

\* if p.exists(): p.unlink()
ProgressUnlink ==
    /\ progress.wpc = "dumped"
    /\ progress' =
          [progress EXCEPT
              !.file = [kind |-> "missing", body |-> DefaultDoc],
              !.wpc = "unlinked"]
    /\ UNCHANGED <<P, data, args, pc, status, sol, schedule_rows,
                   bounds_rows, cip_rows, files, kpi, w0, exc, err_log,
                   stages>>

\* os.rename(tmp, p): the temp file becomes the progress file, or the call
\* raises and the except clause falls back to the direct write (the temp
\* file stays).
ProgressRename ==
    /\ progress.wpc = "unlinked"
    /\ \/ progress' =
             [progress EXCEPT
                 !.file = progress.tmp,
                 !.tmp = [kind |-> "missing", body |-> DefaultDoc],
                 !.wpc = "idle", !.written = @ + 1]
       \/ progress' = [progress EXCEPT !.wpc = "fallback"]
    /\ UNCHANGED <<P, data, args, pc, status, sol, schedule_rows,
                   bounds_rows, cip_rows, files, kpi, w0, exc, err_log,
                   stages>>

\* p.write_text(...) of the fallback: the file is opened for writing
\* (truncated), then the text is written; a failure of the write is
\* swallowed and leaves what was written so far.
ProgressFallback ==
    /\ \/ /\ progress.wpc = "fallback"
          /\ progress' =
                [progress EXCEPT
                    !.file = [kind |-> "partial", body |-> DefaultDoc],
                    !.wpc = "fallback_open"]
       \/ /\ progress.wpc = "fallback_open"
          /\ \/ progress' =
                   [progress EXCEPT
                       !.file = [kind |-> "complete", body |-> progress.new],
                       !.wpc = "idle", !.written = @ + 1]
             \/ progress' = [progress EXCEPT !.wpc = "idle"]
    /\ UNCHANGED <<P, data, args, pc, status, sol, schedule_rows,
                   bounds_rows, cip_rows, files, kpi, w0, exc, err_log,
                   stages>>

InitProgress == InitAt({CHOOSE inp \in MainInputs : TRUE}, "main")

NextProgress ==
    \/ ProgressUpdate
    \/ ProgressUnlink
    \/ ProgressRename
    \/ ProgressFallback

\* The solver process as a writer of the progress file; a reader may open
\* the file in any state.
SpecProgress == InitProgress /\ [][NextProgress]_vars

\* C14: for any sequence of progress updates, a reader that opens
\* solver_progress.json at any instant after the first write finds a
\* complete JSON document (the previous or the new one), never a missing
\* file or a partial document.
C14_ReaderSeesComplete ==
    progress.written >= 1 => progress.file.kind = "complete"

----------------------------------------------------------------------------
(* write_solution step by step, with a crash of the process *)

\* A file that to_csv has opened for writing and not yet finished: the old
\* content is gone, the new content is not all there.
Truncated == [prior |-> FALSE, rows |-> << >>, partial |-> TRUE]

\* The order in which write_solution and write_week1_initial_states write.
WriteOrder == <<"schedule", "cip", "week1", "bounds">>

\* The single-phase solve returns FEASIBLE or OPTIMAL; the rows are
\* extracted, nothing is written yet.
SolveReturns ==
    /\ pc = "start" /\ ~args.two_phase
    /\ \E s \in Solutions(P, data, args) : \E st \in {"FEASIBLE", "OPTIMAL"} :
          LET fs == WriteSolution(files, P, data, args, s)
          IN  /\ status' = st
              /\ sol' = s
              /\ schedule_rows' = ScheduleRows(data, s, 0)
              /\ bounds_rows' = BoundsRows(data, s)
              /\ cip_rows' = (IF fs.cip.prior THEN << >> ELSE fs.cip.rows)
    /\ pc' = "writing"
    /\ UNCHANGED <<P, data, args, files, kpi, w0>>
    /\ UNCHANGED aux

\* The files write_solution is to produce from the solution held.
WriteTarget ==
    WriteSolution([f \in DOMAIN files |-> Prior], P, data, args, sol)

\* The next step of write_solution: DataFrame.to_csv(path) opens the next
\* file in place (truncating it), then writes and closes it; after the
\* last file main() writes the KPI line.
WriteStep ==
    /\ pc = "writing"
    /\ LET todo == {i \in DOMAIN WriteOrder :
                       files[WriteOrder[i]] # WriteTarget[WriteOrder[i]]}
       IN  IF todo = {}
           THEN /\ kpi' = Written(<<KpiLine("", status)>>)
                /\ pc' = "done"
                /\ files' = files
           ELSE LET i == CHOOSE j \in todo : \A k \in todo : j <= k
                    f == WriteOrder[i]
                IN  /\ files' = [files EXCEPT ![f] =
                                    IF files[f] = Truncated
                                    THEN WriteTarget[f] ELSE Truncated]
                    /\ UNCHANGED <<kpi, pc>>
    /\ UNCHANGED <<P, data, args, status, sol, schedule_rows, bounds_rows,
                   cip_rows, w0>>
    /\ UNCHANGED aux

\* The process is killed (or the machine stops) during write_solution.
Killed ==
    /\ pc = "writing"
    /\ pc' = "killed"
    /\ UNCHANGED <<P, data, args, status, sol, schedule_rows, bounds_rows,
                   cip_rows, files, kpi, w0>>
    /\ UNCHANGED aux

NextCrash == SolveReturns \/ WriteStep \/ Killed

\* Single-phase runs that reach write_solution and may be killed there.
SpecCrash == InitSanity /\ [][NextCrash]_vars

\* C15: after a crash at any point of the writing of schedule_phase2.csv,
\* produced_vs_bounds.csv, cip_windows.csv and week1_initial_states.csv,
\* each of these files is either the complete previous version or the
\* complete new version.
C15_CrashLeavesComplete ==
    pc = "killed" =>
        \A f \in DOMAIN files : files[f] = Prior \/ files[f] = WriteTarget[f]

----------------------------------------------------------------------------
(* Properties of the CIP windows *)

\* C16 as stated: in every feasible full-phase solution, on every line the
\* start hours of consecutive present CIPs differ by at most the interval.
C16_CipStartSpacing ==
    (SolvedSingle /\ args.phase = "full") =>
        \A l \in data.lines : \A k \in 1..2 :
            (sol[l].cips # << >> /\ sol[l].cips[k].b /\ sol[l].cips[k + 1].b)
                => sol[l].cips[k + 1].s - sol[l].cips[k].s
                      <= P.cip_interval_h

\* C16, amended: in every feasible full-phase solution, on every line each
\* present CIP after the first starts at or after the end of the previous
\* one and at most the interval after that end, so that consecutive starts
\* differ by at most the interval plus the CIP duration.
C16_CipSpacingFromEnd ==
    (SolvedSingle /\ args.phase = "full") =>
        \A l \in data.lines : \A k \in 1..2 :
            (sol[l].cips # << >> /\ sol[l].cips[k].b /\ sol[l].cips[k + 1].b)
                => /\ sol[l].cips[k + 1].s >= sol[l].cips[k].e
                   /\ sol[l].cips[k + 1].s - sol[l].cips[k].e
                         <= P.cip_interval_h
                   /\ sol[l].cips[k + 1].s - sol[l].cips[k].s
                         <= P.cip_interval_h + P.cip_duration_h

\* A solution whose second CIP starts more than the interval after the
\* start of the first, exactly the interval after its end.
C16_Witness ==
    /\ SolvedSingle /\ args.phase = "full"
    /\ \E l \in data.lines :
          /\ sol[l].cips # << >>
          /\ sol[l].cips[1].b /\ sol[l].cips[2].b
          /\ sol[l].cips[2].s - sol[l].cips[1].s > P.cip_interval_h
          /\ sol[l].cips[2].s = sol[l].cips[1].e + P.cip_interval_h

----------------------------------------------------------------------------
(* Runs with a configured CIP interval and per-line overrides *)

\* One line, two demand orders, full phase; the global interval is the
\* default or one more, and line_cip_hrs.csv is absent or gives line 1 an
\* interval of its own.
IntervalInputs ==
    {[inp EXCEPT !.P.cip_interval_h = interval,
                 !.data.cip_interval_map = cmap] :
        inp \in {x \in FullInputs :
                    /\ x.P.min_run_hours = 1
                    /\ x.data.downtimes = {}
                    /\ Setup(x.data, "A", "B") = 0
                    /\ InitOf(x.data, 1).available_from = 0
                    /\ InitOf(x.data, 1).carryover_run_hours = 0},
        interval \in {DefaultCipInterval, DefaultCipInterval + 1},
        cmap \in {<< >>, (1 :> 1), (1 :> DefaultCipInterval + 1)}}

InitInterval == InitWith(IntervalInputs)

SpecInterval == InitInterval /\ [][NextSingle]_vars

\* data.cip_interval_map.get(l, P.cip_interval_h)
LineCipInterval(Pp, d, l) ==
    IF l \in DOMAIN d.cip_interval_map THEN d.cip_interval_map[l]
    ELSE Pp.cip_interval_h

\* C17: for a line with a max_cip_hrs override the CIP triggers (k * I),
\* the CIP placement windows and the tail-coverage bound of a feasible
\* full-phase solution are those of I = max_cip_hrs of the line; a line
\* without override uses the global cip_interval_h.
C17_OverrideUsed ==
    (SolvedSingle /\ args.phase = "full") =>
        \A l \in data.lines :
            sol[l].cips # << >> =>
                LET I == LineCipInterval(P, data, l)
                    cips == sol[l].cips
                    segs == sol[l].segs
                    carry == InitOf(data, l).carryover_run_hours
                IN  /\ \A k \in 1..3 :
                          cips[k].b <=>
                              ClockSpan(P, data, l, segs) + carry >= k * I
                    /\ cips[1].b =>
                          cips[1].s <= InitOf(data, l).available_from
                                          + Max2(0, I - carry)
                    /\ \A k \in 1..2 :
                          cips[k + 1].b => cips[k + 1].s <= cips[k].e + I
                    /\ cips[1].b =>
                          LastEndL(data, l, segs) - LastCipEnd(cips) <= I


\* C18: for every line with production, write_week1_initial_states writes
\* as carryover the total run_hours of the segments that start at or after
\* the line's last CIP end, clamped to [0, I - 1] for the configured CIP
\* interval I, whatever value I has.
C18_CarryoverClampedToInterval ==
    (SolvedSingle /\ ~files.week1.prior) =>
        \A l \in data.lines :
            LET prods == RowsOfLine(schedule_rows, l)
                lc == RowsOfLine(cip_rows, l)
                last_cip_end ==
                    IF lc = << >> THEN 0
                    ELSE SetMax({lc[i].end_hour : i \in DOMAIN lc})
                total ==
                    SumOver({i \in DOMAIN prods :
                                prods[i].start_hour >= last_cip_end},
                            [i \in DOMAIN prods |-> prods[i].run_hours])
            IN  prods # << >> =>
                    files.week1.rows[l].carryover_run_hours
                        = Min2(Max2(0, total), P.cip_interval_h - 1)

----------------------------------------------------------------------------
(* build_model: the objective of the Week-1 model (maximize_production) *)

\* The scale of the production term and the weights of the secondary
\* terms: the literals of the objective and the defaults of Params.
ProdScale == 1000
FlatCoScaleMinCo == 10000
WeightedCoScaleMinCo == 100
FlatCoScaleSpread == 10
objective_makespan_weight == 1
objective_changeover_weight == 100
objective_cip_defer_weight == 10

\* The per-machine changeover weights of Params.
co_topload_weight == 50
co_ttp_weight == 10
co_ffs_weight == 10
co_casepacker_weight == 10
co_base_weight == 5
co_conv_org_weight == 30
co_cinn_weight == 20
co_flavor_weight == 5

\* data.machine_changes.get((a, b), default).  Data.load makes one entry
\* per row of the changeover table: from the machine columns when the file
\* has them (the machine_changes field of the input), else every machine
\* changes exactly when setup_rounded > 0.  A pair without a row reads the
\* default of build_model: every machine changes.
MachineChanges(d, a, b) ==
    IF "machine_changes" \in DOMAIN d
    THEN (IF <<a, b>> \in DOMAIN d.machine_changes
          THEN d.machine_changes[<<a, b>>]
          ELSE [ttp |-> 1, ffs |-> 1, topload |-> 1, casepacker |-> 1])
    ELSE LET full == IF <<a, b>> \in DOMAIN d.setup /\ d.setup[<<a, b>>] = 0
                     THEN 0 ELSE 1
         IN  [ttp |-> full, ffs |-> full, topload |-> full,
              casepacker |-> full, conv_to_org |-> 0, cinn_to_non |-> 0,
              added_flavors |-> 0]

\* pair_cost of the successor link from an order of SKU a to one of SKU b.
PairCost(d, a, b) ==
    LET mc == MachineChanges(d, a, b)
    IN  co_base_weight
          + co_topload_weight * mc.topload
          + co_ttp_weight * mc.ttp
          + co_ffs_weight * mc.ffs
          + co_casepacker_weight * mc.casepacker

ObjectiveModes == {"balanced", "min-changeovers", "spread-load"}

\* prod_sum: the produced quantity over all orders.
ProdSum(d, s) ==
    SumOver(NOrders(d),
            [oi \in NOrders(d) |->
                Produced(d, d.orders[oi], [l \in d.lines |-> s[l].segs[oi]])])

\* The expression build_model maximizes when maximize_production is set:
\* prod_sum * 1000 - secondary.  objective_idle_weight is 0 by default, so
\* that no idle variable is created and total_idle is 0.
MaximizeObjective(d, a, mode, s) ==
    LET use_weighted_co ==
            ChangeoversOn(a)
                /\ \E l \in d.lines : EligOrdered(d, l) # {}
        weighted_co_total ==
            IF use_weighted_co
            THEN SumOver(d.lines,
                     [l \in d.lines |->
                         LET links == {pr \in DOMAIN s[l].succ :
                                          /\ s[l].succ[pr]
                                          /\ PairCost(d, d.orders[pr[1]].sku,
                                                      d.orders[pr[2]].sku) > 0}
                         IN  SumOver(links,
                                 [pr \in links |->
                                     PairCost(d, d.orders[pr[1]].sku,
                                              d.orders[pr[2]].sku)])])
            ELSE 0
        flat_co_total ==
            SumOver(d.lines,
                [l \in d.lines |->
                    Max2(0, NPresent(NOrders(d), s[l].segs) - 1)])
        makespan ==
            SetMax({0} \cup {EffEnd(s[l].segs[oi]) :
                                l \in d.lines, oi \in NOrders(d)})
        cip_defer_total ==
            SumOver(d.lines,
                [l \in d.lines |->
                    SumOver(DOMAIN s[l].cips,
                        [k \in DOMAIN s[l].cips |->
                            IF s[l].cips[k].b THEN s[l].cips[k].s ELSE 0])])
        co_term ==
            CASE mode = "min-changeovers" ->
                     IF use_weighted_co
                     THEN weighted_co_total * WeightedCoScaleMinCo
                     ELSE flat_co_total * FlatCoScaleMinCo
              [] mode = "spread-load" ->
                     IF use_weighted_co THEN weighted_co_total
                     ELSE flat_co_total * FlatCoScaleSpread
              [] OTHER ->
                     IF use_weighted_co
                     THEN weighted_co_total * objective_changeover_weight
                     ELSE flat_co_total * objective_changeover_weight
        span_term ==
            CASE mode = "min-changeovers" -> 0
              [] mode = "spread-load" -> makespan
              [] OTHER -> makespan * objective_makespan_weight
        secondary ==
            span_term + co_term
                - cip_defer_total * objective_cip_defer_weight
    IN  ProdSum(d, s) * ProdScale - secondary

\* C19: with maximize_production (the Week-1 model), for any two feasible
\* solutions of the same model the one with the strictly greater total
\* produced quantity has the strictly greater objective value, in every
\* objective mode and whatever the secondary terms are.
C19_ProductionDominates ==
    pc = "week1" =>
        LET d1 == Data1(data, w0.init_map)
            sols == Solutions(Params1(P), d1, args)
        IN  \A mode \in ObjectiveModes : \A s1 \in sols : \A s2 \in sols :
                ProdSum(d1, s1) > ProdSum(d1, s2)
                    => MaximizeObjective(d1, args, mode, s1)
                          > MaximizeObjective(d1, args, mode, s2)

----------------------------------------------------------------------------
(* Properties of continuation segments *)

\* The schedule rows of order oi on line l.
RowsFor(l, oi) ==
    {i \in DOMAIN schedule_rows :
        /\ schedule_rows[i].line_id = l
        /\ schedule_rows[i].order_id = data.orders[oi].order_id}

\* C20: in full phase, whenever (l, o) has a continuation segment in a
\* feasible solution, some present CIP k of line l lies between the two
\* segments (seg_a_end <= ck_start and ck_end <= seg_b_start); in sanity1
\* and sanity3 no (l, o) has a continuation segment, and every present
\* (l, o) yields exactly one schedule row.
C20_SplitCoupling ==
    SolvedSingle =>
        \A l \in data.lines : \A oi \in NOrders(data) :
            LET v == sol[l].segs[oi]
                cips == sol[l].cips
            IN  IF args.phase = "full"
                THEN v.sb_p =>
                        \E k \in DOMAIN cips :
                            /\ cips[k].b
                            /\ v.sa_e <= cips[k].s
                            /\ cips[k].e <= v.sb_s
                ELSE /\ ~v.sb_p
                     /\ v.present => Cardinality(RowsFor(l, oi)) = 1

\* A full-phase solution with a continuation segment behind a CIP.
C20_Witness ==
    /\ SolvedSingle /\ args.phase = "full"
    /\ \E l \in data.lines : \E oi \in NOrders(data) :
          /\ sol[l].segs[oi].sb_p
          /\ Cardinality(RowsFor(l, oi)) = 2
          /\ \E k \in DOMAIN sol[l].cips :
                /\ sol[l].cips[k].b
                /\ sol[l].segs[oi].sa_e <= sol[l].cips[k].s
                /\ sol[l].cips[k].e <= sol[l].segs[oi].sb_s

----------------------------------------------------------------------------
(* Properties of the successor chain *)

\* A line with or without carry-over and three demand orders that may each
\* be left out, and a second line with carry-over on which no order can
\* run; with changeovers and without CIPs in the model.  The changeover
\* table has rows for A -> B and B -> A with all columns.
ChainInputs ==
    {[P |-> MkParams(1, 1, DefaultCipInterval),
      data |-> [lines |-> {1, 2},
                orders |-> <<DemandOrder("A", "A", 0, Horizon - 1, 0, 1),
                             DemandOrder("B", "B", 0, Horizon - 1, 0, 1),
                             DemandOrder("C", "C", 0, Horizon - 1, 0, 1)>>,
                rate2 |-> (<<1, "A">> :> 2) @@ (<<1, "B">> :> 2)
                             @@ (<<1, "C">> :> 2),
                capable |-> (<<1, "A">> :> 1) @@ (<<1, "B">> :> 1)
                               @@ (<<1, "C">> :> 1),
                setup |-> (<<"A", "B">> :> su) @@ (<<"B", "A">> :> su),
                machine_changes |->
                    (<<"A", "B">> :>
                        [ttp |-> 0, ffs |-> 1, topload |-> 0,
                         casepacker |-> 0, conv_to_org |-> 1,
                         cinn_to_non |-> 0, added_flavors |-> 2])
                    @@ (<<"B", "A">> :>
                        [ttp |-> 0, ffs |-> 1, topload |-> 1,
                         casepacker |-> 0, conv_to_org |-> 0,
                         cinn_to_non |-> 0, added_flavors |-> 0]),
                init_map |-> (1 :> InitState("CLEAN", 0, carry))
                                @@ (2 :> InitState("CLEAN", 0, 1)),
                cip_interval_map |-> << >>,
                downtimes |-> {}],
      args |-> MkArgs(FALSE, "sanity3", FALSE, FALSE, None)] :
        su \in 0..1, carry \in 0..(DefaultCipInterval - 1)}

SpecChain == InitWith(ChainInputs) /\ [][SolveSingle]_vars

\* j is the next present order after i on line l in start-time order.
NextPresent(l, i, j) ==
    LET segs == sol[l].segs
    IN  /\ segs[i].present /\ segs[j].present
        /\ segs[i].sa_s < segs[j].sa_s
        /\ ~\E k \in EligIdxs(data, l) \ {i, j} :
              /\ segs[k].present
              /\ segs[i].sa_s < segs[k].sa_s
              /\ segs[k].sa_s < segs[j].sa_s

\* C21: with changeovers enabled, in every feasible solution succ[i,j] on
\* line l is true exactly when i and j are both present on l and j is the
\* next present order after i in start-time order, so that the links form
\* one chain through the present orders of the line in time order.
C21_SuccessorChain ==
    (SolvedSingle /\ ChangeoversOn(args)) =>
        \A l \in data.lines : \A pr \in EligOrdered(data, l) :
            sol[l].succ[pr] <=> NextPresent(l, pr[1], pr[2])

\* A solution with three orders on a line: two links in time order, none
\* from the first order to the last.
C21_Witness ==
    /\ SolvedSingle /\ ChangeoversOn(args)
    /\ \E l \in data.lines : \E i, j, k \in EligIdxs(data, l) :
          /\ i # j /\ j # k /\ i # k
          /\ sol[l].succ[<<i, j>>] /\ sol[l].succ[<<j, k>>]
          /\ ~sol[l].succ[<<i, k>>]
          /\ NextPresent(l, i, j) /\ NextPresent(l, j, k)

----------------------------------------------------------------------------
(* Properties of the fallback CIP placer *)

\* The sum of run_hours of the schedule rows of line l.
ProductionHours(l) ==
    LET prods == RowsOfLine(schedule_rows, l)
    IN  SumOver(DOMAIN prods, [i \in DOMAIN prods |-> prods[i].run_hours])

\* C22: for every line, the number of CIPs compute_cip_windows requires is
\* the largest n with n * I <= total production hours of the line's
\* segments + carryover.
C22_CipsRequired ==
    SolvedSingle =>
        \A l \in {schedule_rows[i].line_id : i \in DOMAIN schedule_rows} :
            CipsRequiredLine(schedule_rows, data, P, l)
                = (ProductionHours(l) + InitOf(data, l).carryover_run_hours)
                      \div P.cip_interval_h


\* The placement the walk over the gaps gives when every gap is paired with
\* the production completed before that gap: the hours of the segments up
\* to the one the gap follows, plus the carry-over.
PlacedPerGap(l) ==
    LET segments == SortByStart(RowsOfLine(schedule_rows, l))
        n == Len(segments)
        carryover == InitOf(data, l).carryover_run_hours
        gapAt(i) ==
            [g_start |-> segments[i].end_hour,
             g_end |-> segments[i + 1].start_hour,
             co_h |-> IF segments[i].sku # segments[i + 1].sku
                      THEN Setup(data, segments[i].sku, segments[i + 1].sku)
                      ELSE 0,
             after |-> i]
        gaps == SelectSeq([i \in 1..(n - 1) |-> gapAt(i)],
                          LAMBDA g : g.g_end > g.g_start)
        len == [i \in 1..n |-> segments[i].end_hour - segments[i].start_hour]
        before == [j \in DOMAIN gaps |->
                      carryover + SumOver(1..gaps[j].after, len)]
    IN  PlaceCips(P, l, gaps, before, carryover,
                  CipsRequiredLine(schedule_rows, data, P, l), 1, 0)

\* C23: for each required CIP, compute_cip_windows places it at the start
\* of the first not-yet-used gap, in time order, whose cumulative
\* production before the gap (plus carry) is >= the CIP's threshold and
\* whose length is >= max(D, co), with a block max(D, co) long; also when
\* some consecutive segments of the line are back-to-back.
C23_FirstQualifyingGap ==
    (SolvedSingle /\ args.phase # "full") =>
        \A l \in {schedule_rows[i].line_id : i \in DOMAIN schedule_rows} :
            RowsOfLine(cip_rows, l) = PlacedPerGap(l)

----------------------------------------------------------------------------
(* Properties of the changeover cost *)

\* C24: for each adjacent ordered pair (i -> j) on a line, the changeover
\* cost charged in the objective is W_base + W_top * topload + W_ttp * ttp
\* + W_ffs * ffs + W_cp * casepacker + W_conv * conv_to_org
\* + W_cinn * cinn_to_non + W_flavor * added_flavors, taken from the
\* changeover table entry for (sku_i, sku_j).
C24_PairCostAllTerms ==
    (SolvedSingle /\ ChangeoversOn(args) /\ "machine_changes" \in DOMAIN data)
    => \A l \in data.lines : \A pr \in EligOrdered(data, l) :
          LET a == data.orders[pr[1]].sku
              b == data.orders[pr[2]].sku
              mc == data.machine_changes[<<a, b>>]
          IN  (sol[l].succ[pr] /\ <<a, b>> \in DOMAIN data.machine_changes)
              => PairCost(data, a, b)
                    = co_base_weight
                        + co_topload_weight * mc.topload
                        + co_ttp_weight * mc.ttp
                        + co_ffs_weight * mc.ffs
                        + co_casepacker_weight * mc.casepacker
                        + co_conv_org_weight * mc.conv_to_org
                        + co_cinn_weight * mc.cinn_to_non
                        + co_flavor_weight * mc.added_flavors

----------------------------------------------------------------------------
(* Properties of the idle term *)

\* span_c - prod_c - cip_h_expr of line l in the solution held: the
\* right-hand side of the constraint on idle_c.
IdleExpr(l) ==
    LET segs == sol[l].segs
        cips == sol[l].cips
    IN  ClockSpan(P, data, l, segs)
          - SumOver(NOrders(data), [oi \in NOrders(data) |-> RunH(segs[oi])])
          - P.cip_duration_h * Cardinality({k \in DOMAIN cips : cips[k].b})

\* C25: in every assignment that satisfies the hard constraints, on each
\* line with production span - production hours - D * (number of present
\* CIPs) >= 0, so that the constraint idle_c == span - production - CIP
\* hours with idle_c >= 0, built for a non-zero idle weight, removes no
\* schedule that is feasible with idle weight 0.
C25_IdleNonNegative ==
    SolvedSingle =>
        \A l \in data.lines :
            AnyPresent(EligIdxs(data, l), sol[l].segs) => IdleExpr(l) >= 0

----------------------------------------------------------------------------
(* Properties of the pairwise ordering with an absent order *)

\* The values the variables of an absent key can take: seg_a_end is
\* anchored at 0, seg_a_start is free in [0, H].
AbsentSegs(H) == {[AbsentSeg(H) EXCEPT !.sa_s = s0] : s0 \in 0..H}

\* The pairwise constraints of eligible orders i < j accept the values v of
\* i and w of j for some value of b_ij.
PairAccepts(i, j, v, w) ==
    \E bij \in BOOLEAN : PairOrderOK(data, (i :> v) @@ (j :> w), i, j, bij)

\* C26: an order that is eligible on a line but not present there imposes
\* no timing restriction on the orders that are present: for two eligible
\* orders of which exactly one is present, the pairwise changeover
\* constraints accept every value the present order's own constraints
\* allow (no lower bound on its start, no upper bound on its end).
C26_AbsentImposesNothing ==
    ChangeoversOn(args) =>
        \A l \in data.lines : \A pr \in EligPairs(data, l) :
            /\ \A v \in SegChoices(P, data, args, l, pr[1]) :
                  v.present =>
                      \E w \in AbsentSegs(P.horizon_h) :
                          PairAccepts(pr[1], pr[2], v, w)
            /\ \A w \in SegChoices(P, data, args, l, pr[2]) :
                  w.present =>
                      \E v \in AbsentSegs(P.horizon_h) :
                          PairAccepts(pr[1], pr[2], v, w)

----------------------------------------------------------------------------
(* Properties of the line states handed to the next phase *)

\* C27: hours since the last CIP are never reset without a CIP: for a line
\* on which no CIP was placed during the solved horizon, whether it
\* produced or stayed idle, the carryover written by
\* write_week1_initial_states is the inherited carryover plus the hours
\* produced on that line, capped at I - 1.
C27_CarryoverNotReset ==
    (SolvedSingle /\ ~files.week1.prior) =>
        \A l \in data.lines :
            RowsOfLine(cip_rows, l) = << >> =>
                files.week1.rows[l].carryover_run_hours
                    = Min2(InitOf(data, l).carryover_run_hours
                               + ProductionHours(l),
                           P.cip_interval_h - 1)


----------------------------------------------------------------------------
(* Line availability across the two phases *)

\* The two-phase inputs on a line that is not available at hour 0.
AvailInputs ==
    {[i EXCEPT !.data.init_map = (1 :> InitState("CLEAN", av, 0))] :
        i \in {j \in TwoPhaseInputs :
                  j.args.phase = "sanity3" /\ ~j.args.ignore_co},
        av \in 1..2}

SpecAvail == InitWith(AvailInputs) /\ [][NextTwoPhase]_vars

\* C28: the intermediate line states handed to the Week-1 solve never make
\* a line usable earlier than the input allowed: once Week-0 is solved, on
\* every line (also one without Week-0 production) the available_from the
\* Week-1 model is built with is at least the available_from of the input.
C28_AvailableFromNotEarlier ==
    pc = "week1" =>
        \A l \in data.lines :
            Data1(data, w0.init_map).init_map[l].available_from
                >= InitOf(data, l).available_from


----------------------------------------------------------------------------
(* The output files after a run in a directory that holds earlier outputs *)

\* C29: after every successful run, whatever earlier runs left in the data
\* directory, schedule_phase2.csv, cip_windows.csv and
\* produced_vs_bounds.csv all describe the solve just completed: no file
\* is still the one an earlier run wrote (no stale CIP rows when the new
\* schedule has no CIP, no stale schedule rows when nothing is produced).
C29_OutputsDescribeThisRun ==
    (SolvedSingle \/ SolvedTwoPhase) =>
        /\ files.schedule = Written(schedule_rows)
        /\ files.cip = Written(cip_rows)
        /\ files.bounds = Written(bounds_rows)


----------------------------------------------------------------------------
(* The progress stages of a run of main() *)

STAGES_SINGLE ==
    <<"loading_data", "building_model", "solving", "writing_output",
      "validating">>

STAGES_TWO_PHASE ==
    <<"loading_data", "building_model_w0", "solving_week0",
      "building_model_w1", "solving_week1", "writing_output", "validating">>

\* init_progress: every stage of the list, pending.
init_progress(ids) ==
    [i \in DOMAIN ids |-> [id |-> ids[i], status |-> "pending"]]

\* update_stage: the status of the stage with this id is set; the other
\* stages are left as they are.
update_stage(st, stage_id, new_status) ==
    [i \in DOMAIN st |->
        IF st[i].id = stage_id THEN [st[i] EXCEPT !.status = new_status]
        ELSE st[i]]

\* The stages whose status is 'active'.
ActiveStages == {stages[i].id : i \in {k \in DOMAIN stages :
                                          stages[k].status = "active"}}

\* The stage the try block starts next: the first one still pending, the
\* validation stage excluded; None when there is none left.
NextStage ==
    LET todo == {i \in DOMAIN stages : /\ stages[i].status = "pending"
                                       /\ stages[i].id # "validating"}
    IN  IF todo = {} THEN "none" ELSE stages[SetMin(todo)].id

\* _run_two_phase returns early: no Week-0 order once the data is loaded,
\* or no Week-1 order once Week-0 is solved.
EarlyReturn ==
    /\ args.two_phase
    /\ \/ NextStage = "building_model_w0" /\ Data0(data).orders = << >>
       \/ /\ NextStage = "building_model_w1"
          /\ SelectSeq(data.orders, InWeek1) = << >>

\* main(): init_progress with the stage list of the mode, before the try
\* statement.
InitProgressStages ==
    /\ pc = "init_progress"
    /\ stages' = init_progress(IF args.two_phase THEN STAGES_TWO_PHASE
                               ELSE STAGES_SINGLE)
    /\ pc' = "try"
    /\ UNCHANGED <<P, data, args, status, sol, schedule_rows, bounds_rows,
                   cip_rows, files, kpi, w0, exc, err_log, progress>>

\* update_stage(..., "active") at the head of the next stage of the try
\* block; the block ends when no stage is left or on an early return.
StageActive ==
    /\ pc = "try"
    /\ IF NextStage = "none" \/ EarlyReturn
       THEN pc' = "done" /\ stages' = stages
       ELSE /\ stages' = update_stage(stages, NextStage, "active")
            /\ pc' = "in_stage"
    /\ UNCHANGED <<P, data, args, status, sol, schedule_rows, bounds_rows,
                   cip_rows, files, kpi, w0, exc, err_log, progress>>

\* The work of the active stage completes: update_stage(..., "done"); a
\* solving stage whose solver status is not FEASIBLE / OPTIMAL is set to
\* 'error' and the run leaves the try block.
StageDone ==
    /\ pc = "in_stage"
    /\ \E cur \in ActiveStages :
          IF cur \in {"solving", "solving_week0", "solving_week1"}
          THEN \E st \in {"OPTIMAL", "FEASIBLE", "INFEASIBLE", "UNKNOWN"} :
                  /\ status' = st
                  /\ IF StatusOK(st)
                     THEN /\ stages' = update_stage(stages, cur, "done")
                          /\ pc' = "try"
                     ELSE /\ stages' = update_stage(stages, cur, "error")
                          /\ pc' = "done"
          ELSE /\ stages' = update_stage(stages, cur, "done")
               /\ pc' = "try"
               /\ status' = status
    /\ UNCHANGED <<P, data, args, sol, schedule_rows, bounds_rows, cip_rows,
                   files, kpi, w0, exc, err_log, progress>>

\* The work of the active stage raises: the except clause of main() logs
\* the trace and writes the ERROR status line; it makes no update_stage
\* call.
StageRaises ==
    /\ pc = "in_stage"
    /\ \E cur \in ActiveStages : \E type \in ExcTypes :
          /\ exc' = [stage |-> cur, type |-> type]
          /\ err_log' = Append(err_log, FatalEntry(type))
          /\ kpi' = Written(<<ErrorKpiLine(type)>>)
    /\ pc' = "done"
    /\ UNCHANGED <<P, data, args, status, sol, schedule_rows, bounds_rows,
                   cip_rows, files, w0, progress, stages>>

\* After the try statement: with --validate the validation stage is set
\* 'active'; without it main() ends.
ValidateActive ==
    /\ pc = "done"
    /\ IF args.validate
       THEN /\ stages' = update_stage(stages, "validating", "active")
            /\ pc' = "validating"
       ELSE pc' = "exit" /\ stages' = stages
    /\ UNCHANGED <<P, data, args, status, sol, schedule_rows, bounds_rows,
                   cip_rows, files, kpi, w0, exc, err_log, progress>>

\* validate_all returns ('done'), raises one of the exceptions the except
\* clause takes ('error'), or raises another one: main() ends with it.
ValidateEnd ==
    /\ pc = "validating"
    /\ \/ /\ stages' = update_stage(stages, "validating", "done")
          /\ pc' = "exit"
          /\ UNCHANGED <<exc, err_log>>
       \/ /\ stages' = update_stage(stages, "validating", "error")
          /\ exc' = [stage |-> "validating", type |-> "OSError"]
          /\ err_log' = Append(err_log, ValidateEntry("OSError"))
          /\ pc' = "exit"
       \/ /\ exc' = [stage |-> "validating", type |-> "TypeError"]
          /\ pc' = "crashed"
          /\ UNCHANGED <<err_log, stages>>
    /\ UNCHANGED <<P, data, args, status, sol, schedule_rows, bounds_rows,
                   cip_rows, files, kpi, w0, progress>>

NextStages ==
    \/ InitProgressStages
    \/ StageActive
    \/ StageDone
    \/ StageRaises
    \/ ValidateActive
    \/ ValidateEnd

\* Runs of main() that reach init_progress (Params assembled without
\* --max-lines-per-order), from that call on.
InitStages ==
    InitAt({x \in MainInputs : x.args.max_lines_per_order = None},
           "init_progress")

SpecStages == InitStages /\ [][NextStages]_vars

\* C30: every progress stage that is set 'active' is set 'done' or 'error'
\* before the process ends, and at most one stage is 'active' at any time,
\* on every path of main() and _run_two_phase (exception handler and early
\* returns included).
C30_StagesClosed ==
    /\ Cardinality(ActiveStages) <= 1
    /\ pc \in {"exit", "crashed"} => ActiveStages = {}

====
